---------------------------- MODULE Spec2Model ----------------------------
(***************************************************************************)
(* Streaming completion pipeline of the Numina server.                     *)
(*                                                                         *)
(* Two streaming routes are modelled:                                      *)
(*   - the optimized llama.cpp route (src/unnamed/part_001, lines 377-714),*)
(*     specification Spec;                                                 *)
(*   - the OpenRouter route (src/src/routes/completion.js, lines 264-430), *)
(*     specification SpecOR.                                               *)
(*                                                                         *)
(* Text is a sequence of one-character strings, so that substring tests,   *)
(* regular-expression matches and replacements are computed as the code    *)
(* computes them.                                                          *)
(***************************************************************************)
EXTENDS Integers, Sequences, FiniteSets, TLC

VARIABLES
  upstream,       \* the upstream response stream: "open", "ended", "errored", "destroyed"
  delivered,      \* number of SSE lines the upstream has delivered since the initial state
  fullContent,    \* let fullContent: the accumulated content
  tokenCount,     \* let tokenCount
  streamEnded,    \* let streamEnded
  streamTimeout,  \* the 45 s timer: "armed", "cleared", "fired"; "none" where the route has no timer
  wire,           \* frames accepted by res.write, in order
  resEnded,       \* res.end() has been called
  lateWrites,     \* number of res.write calls made after res.end()
  httpStatus,     \* status line sent to the client, 0 while the headers are not sent
  immediate,      \* setImmediate(processStreamResponse) is queued
  dbPending,      \* database operations issued and not yet applied
  commitRuns,     \* number of times the committer was started
  memory,         \* ShortTermMemory documents of the user, in insertion order
  emotionalLog,   \* user.emotionalLog
  tasks,          \* Task documents of the user
  cacheValid,     \* the user's cache entry holds a value
  awaiting,       \* processResponseAndSave is suspended at await Promise.all(dbOperations)
  stream,         \* req.body.stream === true
  arrived,        \* history: content deltas the data handler has parsed
  forwarded,      \* history: indices into arrived of the deltas written to the client
  leftBy,         \* history: what set streamEnded ("none" while streaming)
  ignored,        \* history: data events that arrived after streamEnded was set
  wireAtCommit,   \* history: the frames written when the committer was last started
  cacheMemory,    \* the recent memory held in the user's cache entry (read while cacheValid)
  reader,         \* another request of the user reading its context through the cache
  lastRead,       \* history: the last read the reader finished, and whether it began after a commit
  taskStore,      \* the Task collection, in creation order (the position is _id and createdAt)
  workers,        \* the /run-tasks invocations in flight, each with its locals
  owners,         \* history: per task, the invocations whose findOneAndUpdate returned it
  windows,        \* the caller's counters of the general and of the completion window, and
                  \* history: the completion requests asked of the route in the completion window
  request,        \* the completion request on its way through the middleware and the handler
  compression,    \* a call of compressForLLM: its arguments and, once it returned, its result
  extraction,     \* a buffer and, once the extractor and the sanitizers ran on it, their results
  emotions,       \* POST /emotions: the user's stored emotional log and the request being served
  context,        \* buildUserContext and buildMessages: the store, the cache entry and the request
  commit          \* the operations of the commit that the store rejected, and whether the
                  \* committer has thrown

\* the variables of the completion routes
completion == << upstream, delivered, fullContent, tokenCount, streamEnded, streamTimeout,
                 wire, resEnded, lateWrites, httpStatus, immediate, dbPending, commitRuns,
                 memory, emotionalLog, tasks, cacheValid, awaiting, stream, arrived, forwarded,
                 leftBy, ignored, wireAtCommit >>

\* the user cache and a concurrent reader of it
cache == << cacheMemory, reader, lastRead >>

\* everything outside the completion routes
\* the task runner
runner == << taskStore, workers, owners >>

\* the way of a request into the completion handler
entry == << windows, request >>

\* the services beside the routes
extras == << compression, extraction, emotions, context, commit >>

others == << cache, runner, entry, extras >>

vars == << completion, others >>

\* no other request of the user is reading through the cache
CacheIdle ==
  /\ cacheMemory = << >>
  /\ reader = [pc |-> "idle", after |-> FALSE, found |-> << >>]
  /\ lastRead = [done |-> FALSE, after |-> FALSE, value |-> << >>]

\* no task is stored and /run-tasks is not being served
RunnerIdle ==
  /\ taskStore = << >>
  /\ workers = << >>
  /\ owners = << >>

\* no request has been counted and none is on its way
EntryIdle ==
  /\ windows = [general |-> 0, completion |-> 0, asked |-> 0, served |-> 0]
  /\ request = [pc |-> "none"]

\* no context is being built
ContextIdle == context = [pc |-> "none"]

\* the store has rejected no operation
CommitIdle == commit = [rejected |-> {}, thrown |-> FALSE]

\* no service beside the routes is being called
ExtrasIdle ==
  /\ compression = [pc |-> "idle"]
  /\ extraction = [pc |-> "idle"]
  /\ emotions = [pc |-> "idle", found |-> TRUE, log |-> << >>]
  /\ ContextIdle
  /\ CommitIdle

----------------------------------------------------------------------------
(* Bounds of the model *)

\* SSE lines one upstream response delivers at most
MaxLines == 3
\* SSE lines one network chunk carries at most
MaxChunk == 2

----------------------------------------------------------------------------
(* Text *)

WS == {" ", "\n", "\t", "\r"}

Max(a, b) == IF a >= b THEN a ELSE b
Min(a, b) == IF a <= b THEN a ELSE b

\* the least / greatest element of a non-empty set of positions
Least(S) == CHOOSE i \in S : \A j \in S : i <= j
Greatest(S) == 0 - Least({ 0 - i : i \in S })

\* the least element of a set of positions, or the given value when the set is empty
LeastOr(S, none) == IF S = {} THEN none ELSE Least(S)

\* s.substring(i - 1): the text from position i on
From(s, i) == IF i > Len(s) THEN << >> ELSE SubSeq(s, i, Len(s))

\* s.startsWith(t, i - 1)
StartsAt(s, i, t) ==
  /\ i >= 1
  /\ i + Len(t) - 1 <= Len(s)
  /\ SubSeq(s, i, i + Len(t) - 1) = t

\* s.indexOf(t, from - 1) + 1: the first position >= from where t starts, 0 when none
IndexFrom(s, t, from) == LeastOr({ i \in from..(Len(s) - Len(t) + 1) : StartsAt(s, i, t) }, 0)

\* s.includes(t)
Includes(s, t) == IndexFrom(s, t, 1) # 0

\* s.replace(t, ""): the first occurrence of the literal t removed
CutAt(s, i, n) == IF i = 0 \/ n = 0 THEN s ELSE SubSeq(s, 1, i - 1) \o From(s, i + n)
RemoveFirst(s, t) == CutAt(s, IndexFrom(s, t, 1), Len(t))

\* the first position >= i that holds no whitespace (Len(s) + 1 when none): \s*
SkipWs(s, i) == LeastOr({ j \in i..Len(s) : s[j] \notin WS }, Max(i, Len(s) + 1))

\* the position after an optional colon at i: ":?"
SkipColon(s, i) == IF i <= Len(s) /\ s[i] = ":" THEN i + 1 ELSE i

\* s.trim()
Between(s, keep) == IF keep = {} THEN << >> ELSE SubSeq(s, Least(keep), Greatest(keep))
Trim(s) == Between(s, { j \in 1..Len(s) : s[j] \notin WS })

UpperToLower ==
  [ c \in {"A","B","C","D","E","F","G","H","I","J","K","L","M","N","O","P","Q","R","S",
           "T","U","V","W","X","Y","Z"} |->
      CASE c = "A" -> "a" [] c = "B" -> "b" [] c = "C" -> "c" [] c = "D" -> "d"
        [] c = "E" -> "e" [] c = "F" -> "f" [] c = "G" -> "g" [] c = "H" -> "h"
        [] c = "I" -> "i" [] c = "J" -> "j" [] c = "K" -> "k" [] c = "L" -> "l"
        [] c = "M" -> "m" [] c = "N" -> "n" [] c = "O" -> "o" [] c = "P" -> "p"
        [] c = "Q" -> "q" [] c = "R" -> "r" [] c = "S" -> "s" [] c = "T" -> "t"
        [] c = "U" -> "u" [] c = "V" -> "v" [] c = "W" -> "w" [] c = "X" -> "x"
        [] c = "Y" -> "y" [] c = "Z" -> "z" ]

\* s.toLowerCase()
ToLowerCase(s) ==
  [ i \in 1..Len(s) |-> IF s[i] \in DOMAIN UpperToLower THEN UpperToLower[s[i]] ELSE s[i] ]

\* the characters of a text marked with whether a replacement drops them, and the text of
\* those it keeps
Kept(p) == ~p.drop
Chars(ps) == [ i \in 1..Len(ps) |-> ps[i].c ]

\* the runs of two or more newlines replaced by one: .replace(/\n{2,}/g, "\n"), which
\* drops every newline that another newline follows
CollapseNewlines(s) ==
  Chars(SelectSeq([ i \in 1..Len(s) |->
                      [c |-> s[i], drop |-> s[i] = "\n" /\ i < Len(s) /\ s[i + 1] = "\n"] ],
                  Kept))

\* .replace(/(\r?\n){2,}/g, "\n"): every run of two or more line breaks (\n or \r\n)
\* replaced by one \n, which drops all the characters of such a run but its last
InLineBreak(s, i) == s[i] = "\n" \/ (s[i] = "\r" /\ i < Len(s) /\ s[i + 1] = "\n")
LineBreakStart(s, i) == IF s[i] = "\n" /\ i > 1 /\ s[i - 1] = "\r" THEN i - 1 ELSE i
LineBreakEnd(s, i) == IF s[i] = "\r" THEN i + 1 ELSE i
BreakBefore(s, start) == start > 1 /\ s[start - 1] = "\n"
BreakAfter(s, end) == end < Len(s) /\ InLineBreak(s, end + 1)
InRun(s, i) ==
  /\ InLineBreak(s, i)
  /\ BreakBefore(s, LineBreakStart(s, i)) \/ BreakAfter(s, LineBreakEnd(s, i))
CollapseLineBreaks(s) ==
  Chars(SelectSeq([ i \in 1..Len(s) |->
                      [c |-> s[i], drop |-> InRun(s, i) /\ (s[i] = "\r" \/ BreakAfter(s, i))] ],
                  Kept))

\* s.split("\n")
RECURSIVE SplitAt(_, _)
SplitLines(s) == SplitAt(s, IndexFrom(s, << "\n" >>, 1))
SplitAt(s, i) ==
  IF i = 0 THEN << s >>
  ELSE << SubSeq(s, 1, i - 1) >> \o SplitAt(From(s, i + 1), IndexFrom(From(s, i + 1), << "\n" >>, 1))

\* lines.join("\n")
RECURSIVE JoinLines(_)
JoinLines(ls) ==
  IF ls = << >> THEN << >>
  ELSE IF Len(ls) = 1 THEN ls[1]
  ELSE ls[1] \o << "\n" >> \o JoinLines(Tail(ls))

\* the concatenation of a sequence of texts
RECURSIVE Flatten(_)
Flatten(ss) == IF ss = << >> THEN << >> ELSE Head(ss) \o Flatten(Tail(ss))

----------------------------------------------------------------------------
(* In-band markers, stop sequences and the texts the upstream can send *)

EMOTION_LOG == <<"E","M","O","T","I","O","N","_","L","O","G">>
TASK_INFERENCE == <<"T","A","S","K","_","I","N","F","E","R","E","N","C","E">>

\* parsed.content.includes('EMOTION_LOG') || parsed.content.includes('TASK_INFERENCE')
HasMarker(content) == Includes(content, EMOTION_LOG) \/ Includes(content, TASK_INFERENCE)

\* const stop = req.body.stop || [ ... ] of the optimized route
stop == <<
  <<"U","S","E","R",":">>,
  <<"\n","U","S","E","R",":">>,
  <<"\n","U","s","e","r",":">>,
  <<"H","u","m","a","n",":">>,
  <<"\n","H","u","m","a","n",":">>,
  <<"\n","\n","\n">>,
  <<"-","-","-">>,
  <<"<","s",">">>,
  <<"<","/","s",">">>,
  <<"[","I","N","S","T","]">>,
  <<"[","/","I","N","S","T","]">>,
  <<"A","s","s","i","s","t","a","n","t",":">>,
  <<"\n","A","s","s","i","s","t","a","n","t",":">>,
  <<".",".",".">>,
  <<"e","t","c",".">> >>

\* if (tokenCount > 800)
TokenCap == 800

\* req.body.prompt of the modelled request: "hello"
userPrompt == <<"h","e","l","l","o">>

\* "I'm sorry, I wasn't able to provide a proper response. Please try again.",
\* held as one unit of text
Apology == << "I'm sorry, I wasn't able to provide a proper response. Please try again." >>

\* JSON values: text, number, object, or undefined (a missing field)
Str(v) == [t |-> "string", v |-> v]
Num(n) == [t |-> "number", n |-> n]
Obj(o) == [t |-> "object", o |-> o]
Undefined == [t |-> "undefined"]

\* JavaScript values beside these: null, an array of strings, and an object whose own
\* keys are listed in insertion order, e a sequence of << key, value >>
Null == [t |-> "null"]
Arr(a) == [t |-> "array", a |-> a]
Ordered(e) == [t |-> "entries", e |-> e]

\* typeof x
typeof(x) == IF x.t \in { "object", "array", "entries", "null" } THEN "object" ELSE x.t

\* o.k of a parsed object or of null/undefined (optional chaining o?.k)
Get(o, k) == IF o.t = "object" /\ k \in DOMAIN o.o THEN o.o[k] ELSE Undefined

\* JavaScript truthiness of a JSON value
Truthy(x) ==
  CASE x.t = "string" -> x.v # << >>
    [] x.t = "number" -> x.n # 0
    [] x.t \in { "object", "array", "entries" } -> TRUE
    [] OTHER -> FALSE

\* x || alt
Or(x, alt) == IF Truthy(x) THEN x ELSE alt

\* The JSON texts the modelled upstream sends inside markers
JsonJoy == <<"{","\"","e","m","o","t","i","o","n","\"",":","\"","j","o","y","\"","}">>
JsonSad == <<"{","\"","e","m","o","t","i","o","n","\"",":","\"","s","a","d","\"",",","\"","i","n","t","e","n","s","i","t","y","\"",":","6","}">>
JsonMad == <<"{","\"","e","m","o","t","i","o","n","\"",":","\"","m","a","d","\"",",","\"","i","n","t","e","n","s","i","t","y","\"",":","1","1","}">>
JsonTask == <<"{","\"","t","a","s","k","T","y","p","e","\"",":","\"","p","l","a","n","_","d","a","y","\"","}">>

JsonPlan == <<"{","\"","t","a","s","k","T","y","p","e","\"",":","\"","p","l","a","n","_","d","a","y","\"",",","\"","p","a","r","a","m","e","t","e","r","s","\"",":","{","\"","p","r","i","o","r","i","t","y","\"",":","\"","f","o","c","u","s","\"","}","}">>

JsonTaskNull == <<"{","\"","t","a","s","k","T","y","p","e","\"",":","\"","p","l","a","n","_","w","e","e","k","\"",",","\"","p","a","r","a","m","e","t","e","r","s","\"",":","n","u","l","l","}">>
JsonTaskList == <<"{","\"","t","a","s","k","T","y","p","e","\"",":","\"","p","l","a","n","_","m","o","n","t","h","\"",",","\"","p","a","r","a","m","e","t","e","r","s","\"",":","[","\"","f","o","c","u","s","\"","]","}">>
JsonTaskText == <<"{","\"","t","a","s","k","T","y","p","e","\"",":","\"","p","l","a","n","_","y","e","a","r","\"",",","\"","p","a","r","a","m","e","t","e","r","s","\"",":","\"","s","o","o","n","\"","}">>
JsonTaskNone == <<"{","\"","t","a","s","k","T","y","p","e","\"",":","\"","\"",",","\"","p","a","r","a","m","e","t","e","r","s","\"",":","\"","s","o","o","n","\"","}">>

\* JSON.parse(text): the object a JSON text denotes; any other text throws
JSONParse(text) ==
  CASE text = JsonJoy ->
         [ok |-> TRUE, value |-> Obj([emotion |-> Str(<<"j","o","y">>)])]
    [] text = JsonSad ->
         [ok |-> TRUE, value |-> Obj([emotion |-> Str(<<"s","a","d">>), intensity |-> Num(6)])]
    [] text = JsonMad ->
         [ok |-> TRUE, value |-> Obj([emotion |-> Str(<<"m","a","d">>), intensity |-> Num(11)])]
    [] text = JsonTask ->
         [ok |-> TRUE, value |-> Obj([taskType |-> Str(<<"p","l","a","n","_","d","a","y">>)])]
    [] text = JsonPlan ->
         [ok |-> TRUE,
          value |-> Obj([taskType |-> Str(<<"p","l","a","n","_","d","a","y">>),
                         parameters |-> Obj([priority |-> Str(<<"f","o","c","u","s">>)])])]
    [] text = JsonTaskNull ->
         [ok |-> TRUE,
          value |-> Obj([taskType |-> Str(<<"p","l","a","n","_","w","e","e","k">>), parameters |-> Null])]
    [] text = JsonTaskList ->
         [ok |-> TRUE,
          value |-> Obj([taskType |-> Str(<<"p","l","a","n","_","m","o","n","t","h">>),
                         parameters |-> Arr(<< <<"f","o","c","u","s">> >>)])]
    [] text = JsonTaskText ->
         [ok |-> TRUE,
          value |-> Obj([taskType |-> Str(<<"p","l","a","n","_","y","e","a","r">>), parameters |-> Str(<<"s","o","o","n">>)])]
    [] text = JsonTaskNone ->
         [ok |-> TRUE,
          value |-> Obj([taskType |-> Str(<< >>), parameters |-> Str(<<"s","o","o","n">>)])]
    [] OTHER -> [ok |-> FALSE, value |-> Undefined]

\* The content deltas of the modelled upstream
DeltaHi == <<"H","i">>
DeltaSpace == <<" ">>
DeltaEmoHead == <<"E","M","O","T","I","O">>
DeltaEmoTail == <<"N","_","L","O","G",":"," ">> \o JsonJoy
DeltaEmoFull == EMOTION_LOG \o <<":"," ">> \o JsonSad
DeltaTask == TASK_INFERENCE \o <<":"," ">> \o JsonTask
DeltaStop == <<"\n","H","u","m","a","n",":">>
DeltaEmoOver == EMOTION_LOG \o <<":"," ">> \o JsonMad

Deltas == { DeltaHi, DeltaSpace, DeltaEmoHead, DeltaEmoTail, DeltaEmoFull, DeltaTask, DeltaStop }

\* One line of the upstream's SSE body, as the data handler classifies it:
\*   content  a 'data: ' line whose JSON carries a content delta
\*   done     the line 'data: [DONE]'
\*   other    any line the handler skips (blank, not 'data: ', unparsable JSON, no content)
ContentLine(d) == [kind |-> "content", content |-> d]
DoneLine == [kind |-> "done", content |-> << >>]
OtherLine == [kind |-> "other", content |-> << >>]

Lines == { ContentLine(d) : d \in Deltas } \cup { DoneLine, OtherLine }

\* A network chunk: one to MaxChunk complete lines
Chunks == UNION { [1..n -> Lines] : n \in 1..MaxChunk }

\* Frames written to the client
ContentFrame(c) == [type |-> "content", content |-> c]
DoneFrame == [type |-> "done", content |-> << >>]
ErrorFrame == [type |-> "error", content |-> << >>]

----------------------------------------------------------------------------
(* Metadata extractor of the optimized route *)

\* The brace group \{[^}]*\} that starts at open: where it ends, 0 when there is none
BraceGroupEnd(content, open) ==
  IF open <= Len(content) /\ content[open] = "{"
    THEN IndexFrom(content, << "}" >>, open + 1)
    ELSE 0

\* A match of /MARKER:?\s*(\{[^}]*\})/ that starts at i:
\* [at: where the match starts, open: where the brace group starts, close: where it ends],
\* close = 0 when there is no match at i
MatchFrom(content, i, open) == [at |-> i, open |-> open, close |-> BraceGroupEnd(content, open)]
MarkerJsonAt(content, marker, i) ==
  IF StartsAt(content, i, marker)
    THEN MatchFrom(content, i, SkipWs(content, SkipColon(content, i + Len(marker))))
    ELSE [at |-> i, open |-> 0, close |-> 0]

\* content.match(/MARKER:?\s*(\{[^}]*\})/): the leftmost match, at = 0 when there is none
MarkerJsonMatch(content, marker) ==
  MarkerJsonAt(content, marker,
               LeastOr({ i \in 1..Len(content) : MarkerJsonAt(content, marker, i).close # 0 }, 0))

\* .replace(/(?:EMOTION_LOG|TASK_INFERENCE):?[^\n]*/g, ''): every marker removed with the
\* rest of its line
RECURSIVE StripFrom(_, _)
MarkerStart(s) ==
  LeastOr({ i \in 1..Len(s) : StartsAt(s, i, EMOTION_LOG) \/ StartsAt(s, i, TASK_INFERENCE) }, 0)
RestOfLines(s, nl) == IF nl = 0 THEN << >> ELSE StripFrom(From(s, nl), MarkerStart(From(s, nl)))
StripFrom(s, i) ==
  IF i = 0 THEN s
  ELSE SubSeq(s, 1, i - 1) \o RestOfLines(s, IndexFrom(s, << "\n" >>, i))
\* Variant of StripMarkerLines: the replacement without the g flag, which removes the
\* first marker only
StripFirstMarkerLine(s) ==
  IF MarkerStart(s) = 0 THEN s
  ELSE SubSeq(s, 1, MarkerStart(s) - 1)
         \o (IF IndexFrom(s, << "\n" >>, MarkerStart(s)) = 0 THEN << >>
             ELSE From(s, IndexFrom(s, << "\n" >>, MarkerStart(s))))
StripMarkerLines(s) == StripFrom(s, MarkerStart(s))

\* One of the two extraction steps of extractMetadata: the parsed marker (Undefined when
\* there is no match or JSON.parse throws) and cleanContent after the step
ExtractParsed(content, cleanContent, m, parsed) ==
  IF m.close # 0 /\ parsed.ok
    THEN [value |-> parsed.value,
          clean |-> RemoveFirst(cleanContent, SubSeq(content, m.at, m.close))]
    ELSE [value |-> Undefined, clean |-> cleanContent]
ExtractMatch(content, cleanContent, m) ==
  ExtractParsed(content, cleanContent, m,
                IF m.close # 0 THEN JSONParse(SubSeq(content, m.open, m.close))
                ELSE [ok |-> FALSE, value |-> Undefined])
ExtractStep(content, cleanContent, marker) ==
  ExtractMatch(content, cleanContent, MarkerJsonMatch(content, marker))

\* extractMetadata(content)
ExtractResult(e, k) ==
  [inferredTask |-> k.value,
   inferredEmotion |-> e.value,
   cleanContent |-> Trim(CollapseNewlines(StripMarkerLines(k.clean)))]
ExtractTask(content, e) == ExtractResult(e, ExtractStep(content, e.clean, TASK_INFERENCE))
extractMetadata(content) == ExtractTask(content, ExtractStep(content, content, EMOTION_LOG))

----------------------------------------------------------------------------
(* Sanitizer *)

\* x.toLowerCase() when the match ignores case
Fold(x, ignoreCase) == IF ignoreCase THEN ToLowerCase(x) ELSE x

\* s.replace(/MARKER:?\s*(\{[\s\S]*?\})?\s*?/gi, ""): every marker, whatever its case,
\* removed with an optional colon, the whitespace after it and, when one follows, the
\* text from an opening brace to the first closing brace
RECURSIVE RemoveRegionAt(_, _, _, _)
MarkerIndex(s, marker, ignoreCase) == IndexFrom(Fold(s, ignoreCase), Fold(marker, ignoreCase), 1)
RegionEnd(ws, close) == IF close # 0 THEN close + 1 ELSE ws
AfterRegion(s, ws) == From(s, RegionEnd(ws, BraceGroupEnd(s, ws)))
RemoveRest(rest, marker, ignoreCase) ==
  RemoveRegionAt(rest, marker, ignoreCase, MarkerIndex(rest, marker, ignoreCase))
RemoveRegionAt(s, marker, ignoreCase, i) ==
  IF i = 0 THEN s
  ELSE SubSeq(s, 1, i - 1)
         \o RemoveRest(AfterRegion(s, SkipWs(s, SkipColon(s, i + Len(marker)))), marker, ignoreCase)
RemoveMarkerRegions(s, marker, ignoreCase) == RemoveRest(s, marker, ignoreCase)

\* s.replace(/MARKER:?/gi, ""): every marker left, whatever its case, removed with an
\* optional colon
RECURSIVE RemoveNameAt(_, _, _)
RemoveNameRest(rest, marker) == RemoveNameAt(rest, marker, MarkerIndex(rest, marker, TRUE))
RemoveNameAt(s, marker, i) ==
  IF i = 0 THEN s
  ELSE SubSeq(s, 1, i - 1) \o RemoveNameRest(From(s, SkipColon(s, i + Len(marker))), marker)
RemoveMarkerNames(s, marker) == RemoveNameRest(s, marker)

\* whether a text names a marker, whatever its case
NamesMarker(lower) ==
  Includes(lower, ToLowerCase(TASK_INFERENCE)) \/ Includes(lower, ToLowerCase(EMOTION_LOG))
LineIsClean(line) == ~NamesMarker(ToLowerCase(line))

\* the lines that name no marker joined again and trimmed, when the text names a marker
DropMarkerLines(s) ==
  IF NamesMarker(ToLowerCase(s))
    THEN Trim(JoinLines(SelectSeq(SplitLines(s), LineIsClean)))
    ELSE s

\* sanitized || "I'm sorry, ..."
OrApology(sanitized) == IF sanitized = << >> THEN Apology ELSE sanitized

\* the two replacements that remove one marker
RemoveMarker(s, marker) == RemoveMarkerNames(RemoveMarkerRegions(s, marker, TRUE), marker)

\* sanitizeResponse(text)
sanitizeResponse(text) ==
  IF text = << >> THEN << >>
  ELSE OrApology(DropMarkerLines(Trim(CollapseLineBreaks(
         RemoveMarker(RemoveMarker(text, TASK_INFERENCE), EMOTION_LOG)))))

----------------------------------------------------------------------------
(* The optimized streaming route: state after the upstream connection is open *)

Init ==
  /\ upstream = "open"
  /\ delivered = 0
  /\ fullContent = << >>
  /\ tokenCount = 0
  /\ streamEnded = FALSE
  /\ streamTimeout = "armed"
  /\ wire = << >>
  /\ resEnded = FALSE
  /\ lateWrites = 0
  /\ httpStatus = 0
  /\ immediate = FALSE
  /\ dbPending = {}
  /\ commitRuns = 0
  /\ memory = << >>
  /\ emotionalLog = << >>
  /\ tasks = << >>
  /\ cacheValid = FALSE
  /\ awaiting = FALSE
  /\ stream = TRUE
  /\ arrived = << >>
  /\ forwarded = {}
  /\ leftBy = "none"
  /\ ignored = 0
  /\ wireAtCommit = << >>
  /\ CacheIdle
  /\ RunnerIdle
  /\ EntryIdle
  /\ ExtrasIdle

\* Variant of StopSequenceHit: the buffer is compared with the stop sequence (===) instead
\* of searched for it
StopSequenceEquals(content) == \E k \in 1..Len(stop) : content = stop[k]

\* for (const stopSeq of stop) if (fullContent.includes(stopSeq)) shouldStop = true
StopSequenceHit(content) == \E k \in 1..Len(stop) : Includes(content, stop[k])

\* The for loop of the data handler over the complete lines of a chunk; st holds the
\* variables the loop reads and writes
RECURSIVE DataLoop(_, _)
\* streamEnded = true; clearTimeout(streamTimeout); break
Break(st, why) ==
  [st EXCEPT !.streamEnded = TRUE, !.streamTimeout = "cleared", !.leftBy = why]
\* res.write(`data: ${JSON.stringify({ content: parsed.content })}\n\n`)
Write(st, content) ==
  [st EXCEPT !.wire = Append(@, ContentFrame(content)), !.forwarded = @ \cup {Len(st.arrived)}]
\* a delta with content: counted, checked against the stop sequences and the cap, then
\* skipped when it names a marker and written otherwise
Counted(st, content, rest, bySeq, byCap) ==
  IF bySeq \/ byCap THEN Break(st, IF bySeq THEN "stop" ELSE "cap")
  ELSE IF HasMarker(content) THEN DataLoop(st, rest)
  ELSE DataLoop(Write(st, content), rest)
\* Variant of Count: the cap is tested against the counter before the increment
CountLate(st, content, rest) ==
  Counted([st EXCEPT !.fullContent = @ \o content, !.tokenCount = @ + 1], content, rest,
          StopSequenceHit(st.fullContent \o content), st.tokenCount > TokenCap)
Count(st, content, rest) ==
  Counted([st EXCEPT !.fullContent = @ \o content, !.tokenCount = @ + 1], content, rest,
          StopSequenceHit(st.fullContent \o content), st.tokenCount + 1 > TokenCap)
\* if (parsed.content && parsed.content.trim())
Delta(st, content, rest) ==
  IF Trim(content) = << >> THEN DataLoop(st, rest) ELSE Count(st, content, rest)
DataLoop(st, lines) ==
  IF lines = << >> THEN st
  ELSE CASE Head(lines).kind = "other" -> DataLoop(st, Tail(lines))
         [] Head(lines).kind = "done" -> Break(st, "done")
         [] OTHER -> Delta([st EXCEPT !.arrived = Append(@, Head(lines).content)],
                           Head(lines).content, Tail(lines))

\* the loop's variables after the handler
Becomes(st) ==
  /\ fullContent' = st.fullContent
  /\ tokenCount' = st.tokenCount
  /\ streamEnded' = st.streamEnded
  /\ streamTimeout' = st.streamTimeout
  /\ wire' = st.wire
  /\ arrived' = st.arrived
  /\ forwarded' = st.forwarded
  /\ leftBy' = st.leftBy

\* streamResponse.data.on('data', ...)
OnData(chunk) ==
  /\ upstream = "open"
  /\ delivered + Len(chunk) <= MaxLines
  /\ delivered' = delivered + Len(chunk)
  /\ IF streamEnded
       THEN /\ ignored' = ignored + 1
            /\ UNCHANGED << fullContent, tokenCount, streamEnded, streamTimeout, wire,
                            arrived, forwarded, leftBy >>
       ELSE /\ Becomes(DataLoop([fullContent |-> fullContent, tokenCount |-> tokenCount,
                                 streamEnded |-> streamEnded, streamTimeout |-> streamTimeout,
                                 wire |-> wire, arrived |-> arrived, forwarded |-> forwarded,
                                 leftBy |-> leftBy], chunk))
            /\ UNCHANGED ignored
  /\ UNCHANGED << upstream, resEnded, lateWrites, httpStatus, immediate, dbPending,
                  commitRuns, memory, emotionalLog, tasks, cacheValid, awaiting, stream, wireAtCommit, others >>

\* streamResponse.data.on('end', ...)
OnEnd ==
  /\ upstream = "open"
  /\ upstream' = "ended"
  /\ IF ~streamEnded
       THEN /\ streamEnded' = TRUE
            /\ streamTimeout' = "cleared"
            /\ wire' = Append(wire, DoneFrame)
            /\ resEnded' = TRUE
            /\ leftBy' = "end"
       ELSE UNCHANGED << streamEnded, streamTimeout, wire, resEnded, leftBy >>
  /\ immediate' = (Trim(fullContent) # << >>)
  /\ UNCHANGED << delivered, fullContent, tokenCount, lateWrites, httpStatus, dbPending,
                  commitRuns, memory, emotionalLog, tasks, cacheValid, awaiting, stream, wireAtCommit, arrived, forwarded,
                  ignored, others >>

\* the error handler without its test of streamEnded
OnErrorUnguarded ==
  /\ upstream = "open"
  /\ upstream' = "errored"
  /\ streamEnded' = TRUE
  /\ streamTimeout' = IF streamTimeout = "fired" THEN "fired" ELSE "cleared"
  /\ IF resEnded
       THEN lateWrites' = lateWrites + 1 /\ UNCHANGED wire
       ELSE wire' = Append(wire, ErrorFrame) /\ UNCHANGED lateWrites
  /\ resEnded' = TRUE
  /\ leftBy' = IF streamEnded THEN leftBy ELSE "error"
  /\ UNCHANGED << delivered, fullContent, tokenCount, httpStatus, immediate,
                  dbPending, commitRuns, memory, emotionalLog, tasks, cacheValid, awaiting,
                  stream, wireAtCommit, arrived, forwarded, ignored, others >>

\* streamResponse.data.on('error', ...)
OnError ==
  /\ upstream = "open"
  /\ upstream' = "errored"
  /\ IF ~streamEnded
       THEN /\ streamEnded' = TRUE
            /\ streamTimeout' = "cleared"
            /\ wire' = Append(wire, ErrorFrame)
            /\ resEnded' = TRUE
            /\ leftBy' = "error"
       ELSE UNCHANGED << streamEnded, streamTimeout, wire, resEnded, leftBy >>
  /\ UNCHANGED << delivered, fullContent, tokenCount, lateWrites, httpStatus, immediate,
                  dbPending, commitRuns, memory, emotionalLog, tasks, cacheValid, awaiting, stream, wireAtCommit, arrived,
                  forwarded, ignored, others >>

\* a timer handler that starts the committer as the end handler does
OnTimeoutCommits ==
  /\ streamTimeout = "armed"
  /\ streamTimeout' = "fired"
  /\ IF ~streamEnded
       THEN /\ streamEnded' = TRUE
            /\ wire' = Append(wire, DoneFrame)
            /\ resEnded' = TRUE
            /\ leftBy' = "timer"
       ELSE UNCHANGED << streamEnded, wire, resEnded, leftBy >>
  /\ immediate' = (Trim(fullContent) # << >>)
  /\ UNCHANGED << upstream, delivered, fullContent, tokenCount, lateWrites, httpStatus,
                  dbPending, commitRuns, memory, emotionalLog, tasks, cacheValid, awaiting,
                  stream, wireAtCommit, arrived, forwarded, ignored, others >>

\* const streamTimeout = setTimeout(() => { ... }, 45000)
OnTimeout ==
  /\ streamTimeout = "armed"
  /\ streamTimeout' = "fired"
  /\ IF ~streamEnded
       THEN /\ streamEnded' = TRUE
            /\ wire' = Append(wire, DoneFrame)
            /\ resEnded' = TRUE
            /\ leftBy' = "timer"
       ELSE UNCHANGED << streamEnded, wire, resEnded, leftBy >>
  /\ UNCHANGED << upstream, delivered, fullContent, tokenCount, lateWrites, httpStatus,
                  immediate, dbPending, commitRuns, memory, emotionalLog, tasks, cacheValid, awaiting, stream, wireAtCommit,
                  arrived, forwarded, ignored, others >>

\* req.on('close', ...): the client disconnects
OnClose ==
  /\ ~streamEnded
  /\ streamEnded' = TRUE
  /\ streamTimeout' = "cleared"
  /\ upstream' = "destroyed"
  /\ leftBy' = "close"
  /\ UNCHANGED << delivered, fullContent, tokenCount, wire, resEnded, lateWrites, httpStatus,
                  immediate, dbPending, commitRuns, memory, emotionalLog, tasks, cacheValid, awaiting, stream, wireAtCommit,
                  arrived, forwarded, ignored, others >>

\* The database operations processStreamResponse issues for a completed stream
InsertMany(sanitizedContent) ==
  [op |-> "memory",
   payload |-> << [role |-> "user", content |-> userPrompt],
                  [role |-> "assistant", content |-> sanitizedContent] >>]
PushEmotion(inferredEmotion) ==
  [op |-> "emotion",
   payload |-> [emotion |-> Get(inferredEmotion, "emotion"),
                intensity |-> Get(inferredEmotion, "intensity"),
                context |-> Or(Get(inferredEmotion, "context"), Str(userPrompt))]]
CreateTask(inferredTask) ==
  [op |-> "task",
   payload |-> [taskType |-> Get(inferredTask, "taskType"),
                parameters |-> Or(Get(inferredTask, "parameters"), Obj(<< >>)),
                status |-> "queued"]]
DbOperations(x) ==
  {InsertMany(sanitizeResponse(x.cleanContent))}
    \cup (IF Truthy(Get(x.inferredEmotion, "emotion")) THEN {PushEmotion(x.inferredEmotion)} ELSE {})
    \cup (IF Truthy(Get(x.inferredTask, "taskType")) THEN {CreateTask(x.inferredTask)} ELSE {})
StreamDbOperations(content) == DbOperations(extractMetadata(content))

\* setImmediate(() => processStreamResponse(fullContent, userPrompt, userId)), up to its
\* await Promise.all(dbOperations)
ProcessStreamResponse ==
  /\ immediate
  /\ immediate' = FALSE
  /\ dbPending' = dbPending \cup StreamDbOperations(fullContent)
  /\ commitRuns' = commitRuns + 1
  /\ wireAtCommit' = wire
  /\ UNCHANGED << upstream, delivered, fullContent, tokenCount, streamEnded, streamTimeout,
                  wire, resEnded, lateWrites, httpStatus, memory, emotionalLog, tasks,
                  cacheValid, awaiting, stream, arrived, forwarded, leftBy, ignored, others >>

\* The store applies one issued operation: ShortTermMemory.insertMany,
\* User.findByIdAndUpdate($push emotionalLog), Task.create
DbApply(o) ==
  /\ o \in dbPending
  /\ dbPending' = dbPending \ {o}
  /\ memory' = IF o.op = "memory" THEN memory \o o.payload ELSE memory
  /\ emotionalLog' = IF o.op = "emotion" THEN Append(emotionalLog, o.payload) ELSE emotionalLog
  /\ tasks' = IF o.op = "task" THEN Append(tasks, o.payload) ELSE tasks
  /\ UNCHANGED << upstream, delivered, fullContent, tokenCount, streamEnded, streamTimeout,
                  wire, resEnded, lateWrites, httpStatus, immediate, commitRuns, cacheValid, awaiting, stream, wireAtCommit,
                  arrived, forwarded, leftBy, ignored, others >>

Data == \E chunk \in Chunks : OnData(chunk)

Store == \E o \in dbPending : DbApply(o)

Next ==
  \/ Data
  \/ OnEnd
  \/ OnError
  \/ OnTimeout
  \/ OnClose
  \/ ProcessStreamResponse
  \/ Store

Spec == Init /\ [][Next]_vars

----------------------------------------------------------------------------
(* What the client and the store observe *)

IsContentFrame(f) == f.type = "content"

\* the payloads of the content frames written so far, in order
Payloads(w) == [ i \in 1..Len(SelectSeq(w, IsContentFrame)) |-> SelectSeq(w, IsContentFrame)[i].content ]

\* the reply text the client has received: the content payloads, concatenated
ClientText == Flatten(Payloads(wire))

\* the client has received the terminal line and the response is ended
ClientDone == resEnded /\ wire # << >> /\ wire[Len(wire)] = DoneFrame

\* no handler of the request can run any more
Quiescent == upstream # "open" /\ streamTimeout # "armed" /\ ~immediate /\ dbPending = {}

\* the accumulated buffer contains a stop sequence
BufferHasStop == \E k \in DOMAIN stop : IndexFrom(fullContent, stop[k], 1) > 0

\* the memory pair of the request with the given assistant content
MemoryPair(reply) ==
  << [role |-> "user", content |-> userPrompt], [role |-> "assistant", content |-> reply] >>

\* where delta k of a sequence of deltas starts and ends in their concatenation
DeltaStart(ds, k) == Len(Flatten(SubSeq(ds, 1, k - 1))) + 1
DeltaEnd(ds, k) == Len(Flatten(SubSeq(ds, 1, k)))

\* delta k carries at least one character of an occurrence of a marker literal in the
\* concatenated deltas
CarriesMarkerPart(ds, k) ==
  \E m \in {EMOTION_LOG, TASK_INFERENCE} :
    \E p \in 1..Len(Flatten(ds)) :
      /\ StartsAt(Flatten(ds), p, m)
      /\ DeltaStart(ds, k) <= p + Len(m) - 1
      /\ p <= DeltaEnd(ds, k)

NoMarker(d) == ~HasMarker(d)

\* an emotion entry with the given label is in the emotional log
Logged(label) == \E i \in 1..Len(emotionalLog) : emotionalLog[i].emotion = Str(label)

----------------------------------------------------------------------------
(* Claims about the optimized streaming route *)

\* C1: the reply text written to the client (the content payloads of the frames, in
\* order) never contains EMOTION_LOG or TASK_INFERENCE, however the upstream text is cut
\* into deltas.
C1_NoMarkerReachesClient == ~HasMarker(ClientText)

\* C2: no delta that carries a part of a marker split over consecutive deltas is
\* forwarded to the client, and when the stream has ended the emotion of the split marker
\* EMOTION_LOG: {"emotion":"joy"} is in the user's emotional log.
C2_SplitMarkerFiltered ==
  /\ \A k \in forwarded : ~CarriesMarkerPart(arrived, k)
  /\ (Quiescent /\ upstream = "ended" /\ arrived = << DeltaEmoHead, DeltaEmoTail >>)
       => Logged(<<"j","o","y">>)

\* C3: once the accumulated buffer contains a stop sequence, no step (data, end, error,
\* timeout, close or commit) writes another content frame to the client.
C3_NoContentAfterStop ==
  [][BufferHasStop => SelectSeq(wire', IsContentFrame) = SelectSeq(wire, IsContentFrame)]_vars

\* C3 witness: the buffer holds a stop sequence, a later data event has arrived and the
\* upstream has ended.
C3_Witness == BufferHasStop /\ ignored > 0 /\ upstream = "ended"

\* C4: when the completion has left Streaming because of [DONE], a stop sequence, the
\* token cap or the hard timer, the upstream is cancelled and the timer is stopped, and
\* once nothing more can happen the client has received [DONE] as the last frame and the
\* response is ended.
C4_LeavingStreamingTerminates ==
  leftBy \in {"done", "stop", "cap", "timer"} =>
    /\ upstream # "open"
    /\ streamTimeout # "armed"
    /\ Quiescent => ClientDone

\* C6: while the stream is not terminated, every delta that has arrived is in the
\* accumulated buffer, and the content frames written are exactly the arrived deltas
\* without a marker literal, each once and in arrival order.
C6_EveryDeltaBufferedAndRelayed ==
  ~streamEnded =>
    /\ fullContent = Flatten(arrived)
    /\ Payloads(wire) = SelectSeq(arrived, NoMarker)

\* C7: the store holds nothing or exactly the user memory with the prompt followed by one
\* assistant memory, and a completion that ended successfully for the client has stored
\* that pair when nothing more can happen.
C7_MemoryPairPerCompletion ==
  /\ memory # << >> =>
       /\ Len(memory) = 2
       /\ memory[1] = [role |-> "user", content |-> userPrompt]
       /\ memory[2].role = "assistant"
       /\ memory[2].content = sanitizeResponse(extractMetadata(fullContent).cleanContent)
  /\ (Quiescent /\ ClientDone) => Len(memory) = 2

\* C8: when the upstream closes without having delivered any content, the client has
\* received [DONE] and no content frame, and the memory pair is stored with the
\* sanitizer's fallback string as the assistant content.
C8_EmptyStreamStillCommits ==
  (Quiescent /\ upstream = "ended" /\ arrived = << >> /\ leftBy = "end") =>
    /\ wire = << DoneFrame >>
    /\ memory = MemoryPair(Apology)

\* C9: when the client disconnected during Streaming after some content had accumulated,
\* the upstream is cancelled and, once nothing more can happen, the committer has run and
\* stored the memory pair with the partial assistant content.
C9_DisconnectStillCommits ==
  (leftBy = "close" /\ Trim(fullContent) # << >>) =>
    /\ upstream = "destroyed"
    /\ Quiescent =>
         /\ commitRuns = 1
         /\ memory = MemoryPair(sanitizeResponse(extractMetadata(fullContent).cleanContent))

\* C10: when the hard timer fired during Streaming, the client has received [DONE], the
\* upstream is cancelled, and once nothing more can happen the committer has run with the
\* content buffered when the timer fired.
C10_TimerForcesDraining ==
  leftBy = "timer" =>
    /\ ClientDone
    /\ upstream # "open"
    /\ (Quiescent /\ Trim(fullContent) # << >>) =>
         /\ commitRuns = 1
         /\ memory = MemoryPair(sanitizeResponse(extractMetadata(fullContent).cleanContent))

----------------------------------------------------------------------------
(* Text cleaning and metadata extraction of src/routes/completion.js *)

\* content.match(regex) with regex = /MARKER:?\s*(\{[\s\S]*?\})\s*?/g: the texts of all
\* the matches, left to right (with the g flag match() returns no capture groups)
RECURSIVE MatchTexts(_, _, _)
NextMatch(content, marker, start) ==
  LeastOr({ i \in start..Len(content) : MarkerJsonAt(content, marker, i).close # 0 }, 0)
MatchTextsAt(content, marker, m) ==
  IF m.close = 0 THEN << >>
  ELSE << SubSeq(content, m.at, m.close) >> \o MatchTexts(content, marker, m.close + 1)
MatchTexts(content, marker, start) ==
  MatchTextsAt(content, marker, MarkerJsonAt(content, marker, NextMatch(content, marker, start)))

\* extractJsonPattern(regex, content, logType): [parsed, newContent]
ParsedPattern(content, match, parsed) ==
  IF parsed.ok
    THEN [value |-> parsed.value, content |-> RemoveFirst(content, match[1])]
    ELSE [value |-> Undefined, content |-> content]
MatchedPattern(content, match) ==
  IF Len(match) < 2
    THEN [value |-> Undefined, content |-> content]
    ELSE ParsedPattern(content, match, JSONParse(Trim(match[2])))
extractJsonPattern(content, marker) == MatchedPattern(content, MatchTexts(content, marker, 1))

\* .replace(/<\|im_(start|end)\|>(assistant|user)?\n?/g, "")
IM_START == <<"<","|","i","m","_","s","t","a","r","t","|",">">>
IM_END == <<"<","|","i","m","_","e","n","d","|",">">>
ROLE_ASSISTANT == <<"a","s","s","i","s","t","a","n","t">>
ROLE_USER == <<"u","s","e","r">>
RECURSIVE RemoveImFrom(_, _)
ImTokenStart(s) ==
  LeastOr({ i \in 1..Len(s) : StartsAt(s, i, IM_START) \/ StartsAt(s, i, IM_END) }, 0)
SkipOne(s, i, word) == IF StartsAt(s, i, word) THEN i + Len(word) ELSE i
SkipRole(s, i) == IF StartsAt(s, i, ROLE_ASSISTANT) THEN i + Len(ROLE_ASSISTANT) ELSE SkipOne(s, i, ROLE_USER)
SkipTag(s, i) == IF StartsAt(s, i, IM_START) THEN i + Len(IM_START) ELSE i + Len(IM_END)
RemoveImRest(rest) == RemoveImFrom(rest, ImTokenStart(rest))
RemoveImFrom(s, i) ==
  IF i = 0 THEN s
  ELSE SubSeq(s, 1, i - 1) \o RemoveImRest(From(s, SkipOne(s, SkipRole(s, SkipTag(s, i)), << "\n" >>)))
RemoveImTokens(s) == RemoveImRest(s)

\* .replace(CLEANUP_REGEX, "") with
\* CLEANUP_REGEX = /(?:TASK_INFERENCE|EMOTION_LOG):?\s*(?:\{[\s\S]*?\})?\s*?/g
RECURSIVE CleanupFrom(_, _)
MarkerEnd(s, i) ==
  IF StartsAt(s, i, TASK_INFERENCE) THEN i + Len(TASK_INFERENCE) ELSE i + Len(EMOTION_LOG)
CleanupRest(rest) == CleanupFrom(rest, MarkerStart(rest))
CleanupFrom(s, i) ==
  IF i = 0 THEN s
  ELSE SubSeq(s, 1, i - 1) \o CleanupRest(AfterRegion(s, SkipWs(s, SkipColon(s, MarkerEnd(s, i)))))
CLEANUP_REGEX(s) == CleanupRest(s)

\* .replace(/GGGjson[\s\S]*?GGG/g, "") where G stands for the grave accent (U+0060); the
\* grave accent is held as the unit GRAVE, which no other character equals
GRAVE == "U+0060"
FENCE_OPEN == << GRAVE, GRAVE, GRAVE, "j", "s", "o", "n" >>
FENCE_CLOSE == << GRAVE, GRAVE, GRAVE >>
RECURSIVE RemoveFenceAt(_, _, _)
FenceClose(s, open) == IF open = 0 THEN 0 ELSE IndexFrom(s, FENCE_CLOSE, open + Len(FENCE_OPEN))
RemoveFenceRest(rest, open) == RemoveFenceAt(rest, open, FenceClose(rest, open))
RemoveFenceAfter(rest) == RemoveFenceRest(rest, IndexFrom(rest, FENCE_OPEN, 1))
RemoveFenceAt(s, open, close) ==
  IF close = 0 THEN s
  ELSE SubSeq(s, 1, open - 1) \o RemoveFenceAfter(From(s, close + Len(FENCE_CLOSE)))
RemoveJsonFences(s) == RemoveFenceAfter(s)

\* cleanResponse(content)
cleanResponse(content) ==
  IF content = << >> THEN << >>
  ELSE OrApology(DropMarkerLines(Trim(CollapseLineBreaks(RemoveJsonFences(
         CLEANUP_REGEX(RemoveImTokens(content)))))))

----------------------------------------------------------------------------
(* The route of src/routes/completion.js: state after buildUserContext and buildMessages *)

InitOR ==
  /\ upstream = "pending"
  /\ delivered = 0
  /\ fullContent = << >>
  /\ tokenCount = 0
  /\ streamEnded = FALSE
  /\ streamTimeout = "none"
  /\ wire = << >>
  /\ resEnded = FALSE
  /\ lateWrites = 0
  /\ httpStatus = 0
  /\ immediate = FALSE
  /\ dbPending = {}
  /\ commitRuns = 0
  /\ memory = << >>
  /\ emotionalLog = << >>
  /\ tasks = << >>
  /\ cacheValid = TRUE
  /\ awaiting = FALSE
  /\ stream \in BOOLEAN
  /\ arrived = << >>
  /\ forwarded = {}
  /\ leftBy = "none"
  /\ ignored = 0
  /\ wireAtCommit = << >>
  /\ CacheIdle
  /\ RunnerIdle
  /\ EntryIdle
  /\ ExtrasIdle

\* The replies the upstream can give to a non-streaming request
Replies ==
  Deltas \cup { << >>, DeltaEmoOver, DeltaHi \o << "\n" >> \o DeltaEmoFull \o << "\n" >> \o DeltaTask,
                DeltaEmoFull \o << "\n" >> \o DeltaEmoFull }

\* The body of a JSON (non-SSE) answer
JsonFrame(c) == [type |-> "json", content |-> c]

\* The database operations processResponseAndSave issues
PushCheckedEmotion(inferredEmotion, intensity) ==
  [op |-> "emotion",
   payload |-> [emotion |-> Get(inferredEmotion, "emotion"),
                intensity |-> IF intensity.t = "number" /\ intensity.n >= 1 /\ intensity.n <= 10
                                THEN intensity ELSE Undefined,
                context |-> Or(Get(inferredEmotion, "context"), Str(userPrompt))]]
CreateCheckedTask(inferredTask, parameters) ==
  [op |-> "task",
   payload |-> [taskType |-> Get(inferredTask, "taskType"),
                parameters |-> IF typeof(parameters) = "object" THEN parameters
                               ELSE Obj(<< >>),
                status |-> "queued"]]
SaveOperations(e, k) ==
  {InsertMany(cleanResponse(k.content))}
    \cup (IF Truthy(Get(e.value, "emotion"))
            THEN {PushCheckedEmotion(e.value, Get(e.value, "intensity"))} ELSE {})
    \cup (IF Truthy(Get(k.value, "taskType"))
            THEN {CreateCheckedTask(k.value, Get(k.value, "parameters"))} ELSE {})
SaveAfterEmotion(e) == SaveOperations(e, extractJsonPattern(e.content, TASK_INFERENCE))

\* processResponseAndSave(fullContent, ...): the operations handed to Promise.all
processResponseAndSave(content) == SaveAfterEmotion(extractJsonPattern(content, EMOTION_LOG))

\* res.write(frame): a write after res.end() does not reach the client
ResWrite(st, frame) ==
  IF st.resEnded THEN [st EXCEPT !.lateWrites = @ + 1]
  ELSE [st EXCEPT !.wire = Append(@, frame), !.httpStatus = IF @ = 0 THEN 200 ELSE @]

\* The for loop of the data handler over the complete lines of a chunk
RECURSIVE CompletionLoop(_, _)
Relay(st, content, rest) ==
  CompletionLoop(ResWrite([st EXCEPT !.fullContent = @ \o content,
                                     !.forwarded = IF st.resEnded THEN @ ELSE @ \cup {Len(st.arrived)}],
                          ContentFrame(content)), rest)
CompletionLoop(st, lines) ==
  IF lines = << >> THEN st
  ELSE CASE Head(lines).kind = "other" -> CompletionLoop(st, Tail(lines))
         [] Head(lines).kind = "done" -> [ResWrite(st, DoneFrame) EXCEPT !.resEnded = TRUE]
         [] Head(lines).content = << >> -> CompletionLoop(st, Tail(lines))
         [] OTHER -> Relay([st EXCEPT !.arrived = Append(@, Head(lines).content)],
                           Head(lines).content, Tail(lines))

\* the variables a handler of the response reads and writes
Response ==
  [fullContent |-> fullContent, wire |-> wire, resEnded |-> resEnded, lateWrites |-> lateWrites,
   httpStatus |-> httpStatus, arrived |-> arrived, forwarded |-> forwarded]
Responded(st) ==
  /\ fullContent' = st.fullContent
  /\ wire' = st.wire
  /\ resEnded' = st.resEnded
  /\ lateWrites' = st.lateWrites
  /\ httpStatus' = st.httpStatus
  /\ arrived' = st.arrived
  /\ forwarded' = st.forwarded

\* await llmService.makeStreamingRequest(...) resolves and the SSE headers are set
StreamOpens ==
  /\ upstream = "pending" /\ stream
  /\ upstream' = "open"
  /\ UNCHANGED << delivered, fullContent, tokenCount, streamEnded, streamTimeout, wire, resEnded,
                  lateWrites, httpStatus, immediate, dbPending, commitRuns, memory, emotionalLog,
                  tasks, cacheValid, awaiting, stream, wireAtCommit, arrived, forwarded, leftBy, ignored, others >>

\* makeStreamingRequest or makeLLMRequest rejects: res.status(502).json(...)
RequestFails ==
  /\ upstream = "pending"
  /\ upstream' = "errored"
  /\ httpStatus' = 502
  /\ wire' = Append(wire, JsonFrame(<< >>))
  /\ resEnded' = TRUE
  /\ UNCHANGED << delivered, fullContent, tokenCount, streamEnded, streamTimeout, lateWrites,
                  immediate, dbPending, commitRuns, memory, emotionalLog, tasks, cacheValid,
                  awaiting, stream, wireAtCommit, arrived, forwarded, leftBy, ignored, others >>

\* streamResponse.data.on('data', ...)
CompletionData(chunk) ==
  /\ upstream = "open"
  /\ delivered + Len(chunk) <= MaxLines
  /\ delivered' = delivered + Len(chunk)
  /\ Responded(CompletionLoop(Response, chunk))
  /\ UNCHANGED << upstream, tokenCount, streamEnded, streamTimeout, immediate, dbPending,
                  commitRuns, memory, emotionalLog, tasks, cacheValid, awaiting, stream, wireAtCommit, leftBy,
                  ignored, others >>

\* streamResponse.data.on("end", ...)
CompletionEnd ==
  /\ upstream = "open"
  /\ upstream' = "ended"
  /\ IF Trim(fullContent) # << >>
       THEN /\ dbPending' = dbPending \cup processResponseAndSave(fullContent)
            /\ awaiting' = TRUE
            /\ commitRuns' = commitRuns + 1
            /\ wireAtCommit' = wire
       ELSE UNCHANGED << dbPending, awaiting, commitRuns, wireAtCommit >>
  /\ Responded([ResWrite(Response, DoneFrame) EXCEPT !.resEnded = TRUE])
  /\ UNCHANGED << delivered, tokenCount, streamEnded, streamTimeout, immediate, memory,
                  emotionalLog, tasks, cacheValid, stream, leftBy, ignored, others >>

\* streamResponse.data.on("error", ...)
CompletionError ==
  /\ upstream = "open"
  /\ upstream' = "errored"
  /\ Responded([ResWrite([Response EXCEPT !.httpStatus = IF @ = 0 THEN 500 ELSE @], ErrorFrame)
                  EXCEPT !.resEnded = TRUE])
  /\ UNCHANGED << delivered, tokenCount, streamEnded, streamTimeout, immediate, dbPending,
                  commitRuns, memory, emotionalLog, tasks, cacheValid, awaiting, stream, wireAtCommit, leftBy,
                  ignored, others >>

\* await llmService.makeLLMRequest(...) resolves with response.content, and
\* processResponseAndSave runs up to its await Promise.all(dbOperations)
LLMResponse(content) ==
  /\ upstream = "pending" /\ ~stream
  /\ upstream' = "ended"
  /\ fullContent' = content
  /\ dbPending' = dbPending \cup processResponseAndSave(content)
  /\ awaiting' = TRUE
  /\ commitRuns' = commitRuns + 1
  /\ wireAtCommit' = wire
  /\ UNCHANGED << delivered, tokenCount, streamEnded, streamTimeout, wire, resEnded, lateWrites,
                  httpStatus, immediate, memory, emotionalLog, tasks, cacheValid, stream,
                  arrived, forwarded, leftBy, ignored, others >>

\* the sanitizedContent processResponseAndSave returns
SavedContent(saved) == (CHOOSE o \in saved : o.op = "memory").payload[2].content

\* Promise.all(dbOperations) resolves: userCache.invalidateUser(userId), and in the
\* non-streaming mode res.json({ content: sanitizedContent })
SaveCompletes ==
  /\ awaiting /\ dbPending = {}
  /\ awaiting' = FALSE
  /\ cacheValid' = FALSE
  /\ IF stream
       THEN UNCHANGED << wire, resEnded, httpStatus >>
       ELSE /\ wire' = Append(wire, JsonFrame(SavedContent(processResponseAndSave(fullContent))))
            /\ resEnded' = TRUE
            /\ httpStatus' = 200
  /\ UNCHANGED << upstream, delivered, fullContent, tokenCount, streamEnded, streamTimeout,
                  lateWrites, immediate, dbPending, commitRuns, memory, emotionalLog, tasks,
                  stream, wireAtCommit, arrived, forwarded, leftBy, ignored, others >>

DataOR == \E chunk \in Chunks : CompletionData(chunk)

Answer == \E content \in Replies : LLMResponse(content)

NextOR ==
  \/ StreamOpens
  \/ RequestFails
  \/ DataOR
  \/ CompletionEnd
  \/ CompletionError
  \/ Answer
  \/ SaveCompletes
  \/ Store

SpecOR == InitOR /\ [][NextOR]_vars

----------------------------------------------------------------------------
(* Claims about the route of src/routes/completion.js *)

\* a [DONE] line the client has received
IsDoneFrame(f) == f.type = "done"

\* C5: in the streaming route of src/routes/completion.js, once the upstream has finished
\* (end or error event) the line data: [DONE] has been written exactly once, it is the
\* last frame written, and no write was made after the response was ended.
C5_DoneOnceAndLast ==
  (stream /\ upstream \in {"ended", "errored"} /\ httpStatus # 502) =>
    /\ Len(SelectSeq(wire, IsDoneFrame)) = 1
    /\ wire[Len(wire)] = DoneFrame
    /\ lateWrites = 0

\* C11: in a streaming completion the committer is started only when the terminal line
\* data: [DONE] is the last frame already written to the client.
C11_CommitAfterDone ==
  (stream /\ commitRuns > 0) =>
    /\ wireAtCommit # << >>
    /\ wireAtCommit[Len(wireAtCommit)] = DoneFrame

-----------------------------------------------------------------------------
(* The optimized streaming route fed with emotion markers of any intensity *)

\* The upstream lines of a reply whose marker carries an intensity inside or outside 1..10
IntensityLines ==
  { ContentLine(DeltaHi), ContentLine(DeltaEmoFull), ContentLine(DeltaEmoOver), DoneLine }

IntensityChunks == UNION { [1..n -> IntensityLines] : n \in 1..MaxChunk }

DataIntensity == \E chunk \in IntensityChunks : OnData(chunk)

NextIntensity ==
  \/ DataIntensity
  \/ OnEnd
  \/ OnError
  \/ OnTimeout
  \/ OnClose
  \/ ProcessStreamResponse
  \/ Store

SpecIntensity == Init /\ [][NextIntensity]_vars

\* C12: every emotion entry a completion has committed carries no intensity or an
\* integer intensity from 1 to 10, whatever the marker's JSON held.
C12_IntensityInRange ==
  \A i \in 1..Len(emotionalLog) :
    \/ emotionalLog[i].intensity = Undefined
    \/ /\ emotionalLog[i].intensity.t = "number"
       /\ emotionalLog[i].intensity.n \in 1..10

-----------------------------------------------------------------------------
(* The user cache: a second request of the same user reads its context while the
   first one commits *)

\* the commit of the request has succeeded: Promise.all resolved and the entry was invalidated
Committed == commitRuns > 0 /\ ~awaiting /\ dbPending = {}

\* userCache.getCachedMemory(userId, loader): the entry's value while it is younger than
\* the TTL, otherwise the loader is started
GetCachedMemory ==
  /\ reader.pc = "idle"
  /\ IF cacheValid
       THEN /\ lastRead' = [done |-> TRUE, after |-> Committed, value |-> cacheMemory]
            /\ UNCHANGED reader
       ELSE /\ reader' = [pc |-> "loading", after |-> Committed, found |-> << >>]
            /\ UNCHANGED lastRead
  /\ UNCHANGED << completion, cacheMemory, runner, entry, extras >>

\* the loader's query ShortTermMemory.find({ userId }) runs on the store
LoaderQuery ==
  /\ reader.pc = "loading"
  /\ reader' = [reader EXCEPT !.pc = "loaded", !.found = memory]
  /\ UNCHANGED << completion, cacheMemory, lastRead, runner, entry, extras >>

\* the loader resolves: the cache stores what it found and returns it
LoaderResolves ==
  /\ reader.pc = "loaded"
  /\ cacheMemory' = reader.found
  /\ cacheValid' = TRUE
  /\ lastRead' = [done |-> TRUE, after |-> reader.after, value |-> reader.found]
  /\ reader' = [pc |-> "idle", after |-> FALSE, found |-> << >>]
  /\ UNCHANGED << upstream, delivered, fullContent, tokenCount, streamEnded, streamTimeout,
                  wire, resEnded, lateWrites, httpStatus, immediate, dbPending, commitRuns,
                  memory, emotionalLog, tasks, awaiting, stream, arrived, forwarded,
                  leftBy, ignored, wireAtCommit, runner, entry, extras >>

\* the entry reaches the age of the TTL
Expire ==
  /\ cacheValid
  /\ cacheValid' = FALSE
  /\ UNCHANGED << upstream, delivered, fullContent, tokenCount, streamEnded, streamTimeout,
                  wire, resEnded, lateWrites, httpStatus, immediate, dbPending, commitRuns,
                  memory, emotionalLog, tasks, awaiting, stream, arrived, forwarded,
                  leftBy, ignored, wireAtCommit, others >>

InitCache == InitOR /\ ~stream

NextCache ==
  \/ RequestFails
  \/ Answer
  \/ Store
  \/ SaveCompletes
  \/ GetCachedMemory
  \/ LoaderQuery
  \/ LoaderResolves
  \/ Expire

SpecCache == InitCache /\ [][NextCache]_vars

\* C13: a read of the user's recent memory through the cache that begins after the
\* commit has succeeded returns the memory with the committed pair, never the value
\* from before the commit.
C13_ReadAfterCommitSeesPair ==
  (lastRead.done /\ lastRead.after) => lastRead.value = memory

-----------------------------------------------------------------------------
(* The task runner: GET /run-tasks *)

\* .limit(5)
Limit == 5

\* number of stored tasks when invocations run concurrently, and when one runs alone
MaxTasks == 2
BatchTasks == 6

\* number of stored tasks the query of a lone invocation may have to pass over
MaxOthers == 1

\* the caller (req.user.id) and another user
userId == "u"

\* the values new Date() takes, and the values of runAt
Clock == { 1, 2 }

\* the task types with a case in the switch
KnownTypes == { "summarize_expenses", "send_email_summary", "summarize_emotions" }

\* A stored task; _id and createdAt are its position in the collection
Task(user, type, status, priority, runAt) ==
  [userId |-> user, taskType |-> type, status |-> status, priority |-> priority,
   runAt |-> runAt, result |-> << >>]

\* The tasks a store can hold before /run-tasks is called
StoredTasks ==
  { Task("u", "summarize_expenses", "queued", 1, 1),
    Task("u", "plan_day", "queued", 0, 1),
    Task("u", "summarize_emotions", "queued", 0, 1),
    Task("u", "send_email_summary", "queued", 1, 2),
    Task("v", "send_email_summary", "queued", 1, 1),
    [Task("u", "summarize_expenses", "completed", 1, 1)
       EXCEPT !.result = << "Task completed successfully." >>] }

\* The emotional logs the user can have
StoredLogs ==
  { << >>, << PushEmotion(Obj([emotion |-> Str(<<"j","o","y">>)])).payload >> }

\* a task of the query { userId, status: "queued", runAt: { $lte: new Date() } }
Queued(store, id, now) ==
  /\ store[id].userId = userId
  /\ store[id].status = "queued"
  /\ store[id].runAt <= now

\* .sort({ priority: -1, createdAt: 1 }) as createdAt alone
BeforeByAge(store, a, b) == a < b

\* .sort({ priority: -1, createdAt: 1 }): a comes before b
Before(store, a, b) ==
  \/ store[a].priority > store[b].priority
  \/ store[a].priority = store[b].priority /\ a < b

First(store, ids) == CHOOSE a \in ids : \A b \in ids \ {a} : Before(store, a, b)

RECURSIVE Sorted(_, _, _)
Sorted(store, ids, n) ==
  IF n = 0 \/ ids = {} THEN << >>
  ELSE << First(store, ids) >> \o Sorted(store, ids \ {First(store, ids)}, n - 1)

\* Task.find(...).sort(...).limit(5): the _ids found, in order
Find(store, now) ==
  Sorted(store, { id \in 1..Len(store) : Queued(store, id, now) }, Limit)

\* the filter { _id: task._id } alone
MatchesId(task) == TRUE

\* the filter { _id: task._id, status: "queued" } of findOneAndUpdate, on the task of that _id
Matches(task) == task.status = "queued"

\* the last five entries of the log: emotionalLog.slice(-5)
LastFive(log) == SubSeq(log, Max(1, Len(log) - 4), Len(log))

RECURSIVE Summary(_)
Summary(log) == IF log = << >> THEN << >> ELSE log[1].emotion.v \o Summary(Tail(log))

\* the switch with a default case that leaves taskStatus as it was
SwitchDefaultCompleted(taskType, userEmotions) ==
  [status |-> "completed", result |-> << "Unknown task type: ", taskType, "." >>]

\* the switch on updatedTask.taskType: taskStatus and taskResult after it
Switch(taskType, userEmotions) ==
  CASE taskType = "summarize_expenses" ->
         [status |-> "completed", result |-> << "Your weekly expenses summary: ..." >>]
    [] taskType = "send_email_summary" ->
         [status |-> "completed", result |-> << "Summary of important unread emails: ..." >>]
    [] taskType = "summarize_emotions" ->
         [status |-> "completed",
          result |-> IF Len(userEmotions) > 0
                       THEN << "Your recent emotional trends include: " >>
                              \o Summary(LastFive(userEmotions)) \o << "." >>
                       ELSE << "No emotional history to summarize." >>]
    [] OTHER ->
         [status |-> "failed", result |-> << "Unknown task type: ", taskType, "." >>]

\* try { switch } catch (taskErr): User.findById is the call that can reject
TryTask(taskType, userEmotions, rejected) ==
  IF taskType = "summarize_emotions" /\ rejected
    THEN [status |-> "failed", result |-> << "Error processing task: ", "store" >>]
    ELSE Switch(taskType, userEmotions)

\* $set: { result: taskResult } alone
SetResult(task, taskStatus, taskResult) == [task EXCEPT !.result = taskResult]

\* Task.updateOne({ _id }, { $set: { status: taskStatus, result: taskResult } })
SetStatus(task, taskStatus, taskResult) ==
  [task EXCEPT !.status = taskStatus, !.result = taskResult]

\* the locals of an invocation that has not started
Invocation ==
  [pc |-> "start", tasksToProcess |-> << >>, at |-> 0, i |-> 0, skipped |-> {},
   taskStatus |-> "", taskResult |-> << >>, results |-> << >>, status |-> 0]

\* the for loop moves on; after the last task res.status(200).json(...)
Continue(w) ==
  IF w.i < Len(w.tasksToProcess)
    THEN [w EXCEPT !.pc = "claim", !.i = w.i + 1]
    ELSE [w EXCEPT !.pc = "done", !.status = 200]

\* const tasksToProcess = await Task.find(...); an empty batch is answered at once
RunTasks(n, now) ==
  /\ workers[n].pc = "start"
  /\ workers' = [workers EXCEPT ![n] =
       Continue([workers[n] EXCEPT !.tasksToProcess = Find(taskStore, now), !.at = now])]
  /\ UNCHANGED << completion, cache, entry, extras, taskStore, owners >>

\* const updatedTask = await Task.findOneAndUpdate(...); if (!updatedTask) continue
FindOneAndUpdate(n, id) ==
  /\ workers[n].pc = "claim"
  /\ id = workers[n].tasksToProcess[workers[n].i]
  /\ IF Matches(taskStore[id])
       THEN /\ taskStore' = [taskStore EXCEPT ![id].status = "processing"]
            /\ owners' = [owners EXCEPT ![id] = @ \cup {n}]
            /\ workers' = [workers EXCEPT ![n].pc = "execute"]
       ELSE /\ workers' = [workers EXCEPT ![n] =
                 Continue([workers[n] EXCEPT !.skipped = @ \cup {id}])]
            /\ UNCHANGED << taskStore, owners >>
  /\ UNCHANGED << completion, cache, entry, extras >>

\* the task execution logic between the two store updates
Execute(n, id, rejected) ==
  /\ workers[n].pc = "execute"
  /\ id = workers[n].tasksToProcess[workers[n].i]
  /\ workers' = [workers EXCEPT
       ![n].pc = "update",
       ![n].taskStatus = TryTask(taskStore[id].taskType, emotionalLog, rejected).status,
       ![n].taskResult = TryTask(taskStore[id].taskType, emotionalLog, rejected).result]
  /\ UNCHANGED << completion, cache, entry, extras, taskStore, owners >>

\* await Task.updateOne(...); results.push(...)
UpdateOne(n, id) ==
  /\ workers[n].pc = "update"
  /\ id = workers[n].tasksToProcess[workers[n].i]
  /\ taskStore' = [taskStore EXCEPT ![id] =
       SetStatus(@, workers[n].taskStatus, workers[n].taskResult)]
  /\ workers' = [workers EXCEPT ![n] =
       Continue([workers[n] EXCEPT !.results = Append(@,
         [taskId |-> id, taskType |-> taskStore[id].taskType,
          status |-> workers[n].taskStatus, result |-> workers[n].taskResult])])]
  /\ UNCHANGED << completion, cache, entry, extras, owners >>

\* no completion request is in flight; the user's emotional log is log
NoCompletion(log) ==
  /\ upstream = "none"
  /\ delivered = 0
  /\ fullContent = << >>
  /\ tokenCount = 0
  /\ streamEnded = FALSE
  /\ streamTimeout = "none"
  /\ wire = << >>
  /\ resEnded = FALSE
  /\ lateWrites = 0
  /\ httpStatus = 0
  /\ immediate = FALSE
  /\ dbPending = {}
  /\ commitRuns = 0
  /\ memory = << >>
  /\ emotionalLog = log
  /\ tasks = << >>
  /\ cacheValid = FALSE
  /\ awaiting = FALSE
  /\ stream = FALSE
  /\ arrived = << >>
  /\ forwarded = {}
  /\ leftBy = "none"
  /\ ignored = 0
  /\ wireAtCommit = << >>

\* the tasks of a store that no query of the caller finds
Others(store) == { id \in 1..Len(store) : \A now \in Clock : ~Queued(store, id, now) }

\* the stores of size tasks
Stores(size) == [1..size -> StoredTasks]

\* the stores of a user whose tasks do not read the emotional log
BatchStores(size) ==
  { store \in [1..size -> { t \in StoredTasks : t.taskType # "summarize_emotions" }] :
      Cardinality(Others(store)) <= MaxOthers }

\* one of stores is the collection, the user's log is one of logs, and the invocations
\* named in callers are about to run
InitRunner(stores, logs, callers) ==
  /\ \E log \in logs : NoCompletion(log)
  /\ CacheIdle
  /\ EntryIdle
  /\ ExtrasIdle
  /\ taskStore \in stores
  /\ workers = [n \in callers |-> Invocation]
  /\ owners = [id \in DOMAIN taskStore |-> {}]

Start == \E n \in DOMAIN workers, now \in Clock : RunTasks(n, now)
Claim == \E n \in DOMAIN workers, id \in DOMAIN taskStore : FindOneAndUpdate(n, id)
Run == \E n \in DOMAIN workers, id \in DOMAIN taskStore, rejected \in BOOLEAN : Execute(n, id, rejected)
Finish == \E n \in DOMAIN workers, id \in DOMAIN taskStore : UpdateOne(n, id)

NextTasks ==
  \/ Start
  \/ Claim
  \/ Run
  \/ Finish

\* two invocations of the same user run concurrently
InitTasks == InitRunner(Stores(MaxTasks), StoredLogs, { "a", "b" })

SpecTasks == InitTasks /\ [][NextTasks]_vars

\* one invocation on a store with more tasks than a batch takes
InitBatch == InitRunner(BatchStores(BatchTasks), { << >> }, { "a" })

SpecBatch == InitBatch /\ [][NextTasks]_vars

-----------------------------------------------------------------------------
(* Claims about the task runner *)

\* invocation n is between the two store updates of task id
Holds(n, id) ==
  /\ workers[n].pc \in { "execute", "update" }
  /\ workers[n].tasksToProcess[workers[n].i] = id

\* the reports of task id in the results of invocation n
Reports(n, id) ==
  { k \in 1..Len(workers[n].results) : workers[n].results[k].taskId = id }

\* C14: with concurrent invocations every task is moved to processing by at most one
\* of them, a task in processing is held by exactly one invocation, and no task is
\* executed and reported by two.
C14_ClaimedByAtMostOne ==
  \A id \in DOMAIN taskStore :
    /\ Cardinality(owners[id]) <= 1
    /\ taskStore[id].status = "processing" =>
         Cardinality({ n \in DOMAIN workers : Holds(n, id) }) = 1
    /\ Cardinality({ n \in DOMAIN workers : Reports(n, id) # {} }) <= 1

\* two invocations found the same task; one moved it to processing, the other skipped it
C14_Witness ==
  \E id \in DOMAIN taskStore : \E n \in DOMAIN workers : \E o \in DOMAIN workers :
    /\ n # o
    /\ id \in workers[n].skipped
    /\ owners[id] = {o}

C16_UnknownTypeFails ==
  /\ \A id \in DOMAIN taskStore :
       taskStore[id].taskType \notin KnownTypes =>
         /\ taskStore[id].status # "completed"
         /\ taskStore[id].result # << >> =>
              /\ taskStore[id].status = "failed"
              /\ \E j \in 1..Len(taskStore[id].result) :
                   taskStore[id].result[j] = taskStore[id].taskType
  /\ \A n \in DOMAIN workers : \A k \in 1..Len(workers[n].results) :
       workers[n].results[k].taskType \notin KnownTypes =>
         /\ workers[n].results[k].status = "failed"
         /\ \E j \in 1..Len(workers[n].results[k].result) :
              workers[n].results[k].result[j] = workers[n].results[k].taskType

\* a task of unknown type has been run and reported
C16_Witness ==
  \E n \in DOMAIN workers : \E k \in 1..Len(workers[n].results) :
    /\ workers[n].results[k].taskType \notin KnownTypes
    /\ taskStore[workers[n].results[k].taskId].status = "failed"

\* task a ranks above task b: higher priority, or the same priority and created earlier
Outranks(a, b) ==
  \/ taskStore[a].priority > taskStore[b].priority
  \/ taskStore[a].priority = taskStore[b].priority /\ a < b

\* the tasks invocation n has not reached yet
Ahead(n) ==
  { k \in 1..Len(workers[n].tasksToProcess) :
      k > workers[n].i \/ (k = workers[n].i /\ workers[n].pc = "claim") }

\* C17: the batch of a lone invocation holds at most five tasks, only tasks of the
\* caller that were queued and due when it was read, in order of descending priority
\* and ascending creation; no queued due task left out ranks above one taken, and
\* tasks are left out only when the batch is full; the tasks are run in that order.
C17_BatchIsBestQueued ==
  \A n \in DOMAIN workers :
    workers[n].pc # "start" =>
      /\ Len(workers[n].tasksToProcess) <= 5
      /\ \A k \in 1..Len(workers[n].tasksToProcess) :
           /\ taskStore[workers[n].tasksToProcess[k]].userId = userId
           /\ taskStore[workers[n].tasksToProcess[k]].runAt <= workers[n].at
           /\ k \in Ahead(n) => taskStore[workers[n].tasksToProcess[k]].status = "queued"
           /\ \A j \in 1..(k - 1) :
                Outranks(workers[n].tasksToProcess[j], workers[n].tasksToProcess[k])
      /\ \A id \in DOMAIN taskStore :
           (/\ Queued(taskStore, id, workers[n].at)
            /\ \A k \in 1..Len(workers[n].tasksToProcess) : workers[n].tasksToProcess[k] # id)
             => /\ Len(workers[n].tasksToProcess) = 5
                /\ \A k \in 1..Len(workers[n].tasksToProcess) :
                     Outranks(workers[n].tasksToProcess[k], id)
      /\ \A k \in 1..Len(workers[n].results) :
           workers[n].results[k].taskId = workers[n].tasksToProcess[k]

\* a full batch was taken from six queued due tasks, a later task of higher priority
\* ahead of an earlier one, and all five were run
C17_Witness ==
  \E n \in DOMAIN workers :
    /\ workers[n].pc = "done"
    /\ Len(workers[n].results) = 5
    /\ \E id \in DOMAIN taskStore : Queued(taskStore, id, workers[n].at)
    /\ \E j \in 1..5 : \E k \in 1..5 :
         j < k /\ workers[n].tasksToProcess[j] > workers[n].tasksToProcess[k]

-----------------------------------------------------------------------------
(* The way of a request into the completion handler: rate limiters, authentication,
   validation, context, upstream request *)

\* the sizes of the general and of the completion window, and the requests followed
GeneralMax == 2
CompletionMax == 1
MaxRequests == 3

\* the two versions of the route: router.post("/completion", completionRateLimiter, protect, ...)
\* and router.post("/completion", protect, ...); a server mounts one of them
Routes == { "optimized", "cached" }

\* the middleware a request passes, after app.use(rateLimiter)
Middleware(route) ==
  IF route = "optimized"
    THEN << "rateLimiter", "completionRateLimiter", "protect" >>
    ELSE << "rateLimiter", "protect" >>

\* the values of req.body.prompt
Prompts == { Undefined, Str(<< >>), Num(5), Str(userPrompt) }

\* !userPrompt alone
InvalidPromptFalsy(prompt) == ~Truthy(prompt)

\* !userPrompt || typeof userPrompt !== "string"
InvalidPrompt(prompt) == ~Truthy(prompt) \/ prompt.t # "string"

\* the status of the answer when the request to the upstream is rejected
UpstreamFailureStatus(route) == IF route = "optimized" THEN 500 ELSE 502

\* res.status(code).json(...)
Json(r, code) == [r EXCEPT !.pc = "answered", !.status = code, !.body = "json"]

\* next(): the middleware after the k-th, or the handler
Forward(r) ==
  IF r.step < Len(Middleware(r.route))
    THEN [r EXCEPT !.pc = Middleware(r.route)[r.step + 1], !.step = r.step + 1]
    ELSE [r EXCEPT !.pc = "handler"]

\* the values of req.body.n_predict and of req.body.temperature, the latter in hundredths
NPredicts == { Undefined, Num(0), Num(1000), Num(4096) }
Temperatures == { Undefined, Num(0), Num(85), Num(150) }
Params == [n_predict : NPredicts, temperature : Temperatures]
NoParams == [n_predict |-> Undefined, temperature |-> Undefined]

\* const n_predict: Math.min(req.body.n_predict || 500, 1000) in the optimized route,
\* req.body.n_predict || 1000 in the other
n_predict(route, body) ==
  IF route = "optimized"
    THEN Num(Min(Or(body.n_predict, Num(500)).n, 1000))
    ELSE Or(body.n_predict, Num(1000))

\* const temperature, in hundredths: Math.min(req.body.temperature || 0.7, 0.85) in the
\* optimized route, req.body.temperature || 0.7 in the other
temperature(route, body) ==
  IF route = "optimized"
    THEN Num(Min(Or(body.temperature, Num(70)).n, 85))
    ELSE Or(body.temperature, Num(70))

\* a request arrives at the application
Arrive(route, prompt, streaming) ==
  /\ request.pc = "none" \/ (request.pc = "answered" /\ request.route = route)
  /\ windows.served < MaxRequests
  /\ windows' = [windows EXCEPT !.served = @ + 1]
  /\ request' = Forward(
       [pc |-> "none", route |-> route, prompt |-> prompt, stream |-> streaming, step |-> 0,
        seen |-> [general |-> windows.general, completion |-> windows.asked],
        before |-> << memory, emotionalLog, tasks, cacheValid >>,
        status |-> 0, body |-> "none", reached |-> FALSE, reads |-> 0, calls |-> 0,
        headers |-> FALSE, frames |-> 0, upstream |-> "none", commits |-> 0,
        params |-> NoParams, sent |-> NoParams])
  /\ UNCHANGED << completion, cache, runner, extras >>

\* the general window: count the request, answer 429 when the window is full
rateLimiter ==
  /\ request.pc = "rateLimiter"
  /\ windows' = [windows EXCEPT !.general = @ + 1,
                                !.asked = IF windows.general < GeneralMax THEN @ + 1 ELSE @]
  /\ request' = IF windows.general < GeneralMax THEN Forward(request) ELSE Json(request, 429)
  /\ UNCHANGED << completion, cache, runner, extras >>

\* the completion window
completionRateLimiter ==
  /\ request.pc = "completionRateLimiter"
  /\ windows' = [windows EXCEPT !.completion = @ + 1]
  /\ request' = IF windows.completion < CompletionMax THEN Forward(request) ELSE Json(request, 429)
  /\ UNCHANGED << completion, cache, runner, extras >>

\* a window ends; no timer runs between the two limiters of one request
WindowEnds(w) ==
  /\ request.pc \notin { "rateLimiter", "completionRateLimiter" }
  /\ IF w = "general"
       THEN /\ windows.general > 0
            /\ windows' = [windows EXCEPT !.general = 0]
       ELSE /\ windows.asked > 0
            /\ windows' = [windows EXCEPT !.completion = 0, !.asked = 0]
  /\ UNCHANGED << completion, cache, runner, extras, request >>

\* the bearer token is verified, or the request is answered 401
protect(verified) ==
  /\ request.pc = "protect"
  /\ request' = IF verified THEN Forward(request) ELSE Json(request, 401)
  /\ UNCHANGED << completion, cache, runner, extras, windows >>

\* the handler starts: the prompt is validated
Validate ==
  /\ request.pc = "handler"
  /\ request' = IF InvalidPrompt(request.prompt)
                  THEN Json([request EXCEPT !.reached = TRUE], 400)
                  ELSE [request EXCEPT !.reached = TRUE, !.pc = "context"]
  /\ UNCHANGED << completion, cache, runner, extras, windows >>

\* the user and the recent memory are read; in the optimized route the SSE headers are
\* set before the request to the upstream, in the cached route after it resolved
Context(found) ==
  /\ request.pc = "context"
  /\ request' = IF found
                  THEN [request EXCEPT !.pc = "request", !.reads = @ + 1,
                          !.headers = request.stream /\ request.route = "optimized"]
                  ELSE Json([request EXCEPT !.reads = @ + 1], 404)
  /\ UNCHANGED << completion, cache, runner, extras, windows >>

\* the request to the upstream is made with the n_predict and the temperature computed
\* from the body (its two values are drawn here, where they are used), and it resolves or
\* is rejected
Called(r, body) ==
  [r EXCEPT !.calls = @ + 1, !.params = body,
            !.sent = [n_predict |-> n_predict(r.route, body),
                      temperature |-> temperature(r.route, body)]]
Upstream(resolved, body) ==
  /\ request.pc = "request"
  /\ request' = IF resolved
                  THEN [Called(request, body) EXCEPT !.pc = "relay", !.upstream = "resolved",
                                                     !.headers = request.stream]
                  ELSE Json([Called(request, body) EXCEPT !.upstream = "rejected"],
                            UpstreamFailureStatus(request.route))
  /\ UNCHANGED << completion, cache, runner, extras, windows >>

\* the reply is relayed or returned and the memory pair is committed
Complete ==
  /\ request.pc = "relay"
  /\ request' = [request EXCEPT !.pc = "answered", !.status = 200, !.commits = @ + 1,
                   !.body = IF request.stream THEN "sse" ELSE "json",
                   !.frames = IF request.stream THEN 2 ELSE 0]
  /\ memory' = memory \o InsertMany(DeltaHi).payload
  /\ cacheValid' = FALSE
  /\ UNCHANGED << upstream, delivered, fullContent, tokenCount, streamEnded, streamTimeout,
                  wire, resEnded, lateWrites, httpStatus, immediate, dbPending, commitRuns,
                  emotionalLog, tasks, awaiting, stream, arrived, forwarded, leftBy, ignored,
                  wireAtCommit, cache, runner, extras, windows >>

InitEntry == NoCompletion(<< >>) /\ CacheIdle /\ RunnerIdle /\ EntryIdle /\ ExtrasIdle

Arrival == \E route \in Routes, prompt \in Prompts, streaming \in BOOLEAN : Arrive(route, prompt, streaming)
WindowEnd == \E w \in { "general", "completion" } : WindowEnds(w)
Authentication == \E verified \in BOOLEAN : protect(verified)
BuildContext == \E found \in BOOLEAN : Context(found)
UpstreamRequest == \E resolved \in BOOLEAN, body \in Params : Upstream(resolved, body)

NextEntry ==
  \/ Arrival
  \/ rateLimiter
  \/ completionRateLimiter
  \/ WindowEnd
  \/ Authentication
  \/ Validate
  \/ BuildContext
  \/ UpstreamRequest
  \/ Complete

SpecEntry == InitEntry /\ [][NextEntry]_vars

\* a request is on its way or has been answered
InFlight == request.pc # "none"

\* C18: a request reaches the handler only if, when it arrived, the general window held
\* fewer than GeneralMax requests and the completion window fewer than CompletionMax
\* completion requests; a request that found either window full is answered 429 without
\* a call to the upstream and without a commit.
C18_BothWindowsAdmit ==
  InFlight =>
    /\ request.reached =>
         /\ request.seen.general < GeneralMax
         /\ request.seen.completion < CompletionMax
    /\ (/\ request.pc = "answered"
        /\ (request.seen.general >= GeneralMax \/ request.seen.completion >= CompletionMax))
         => /\ request.status = 429
            /\ request.calls = 0
            /\ request.commits = 0

\* C19: a request whose prompt is missing, empty or not a string, once it has passed the
\* middleware, is answered 400 with no store read, no call to the upstream and no SSE
\* header, and memory, emotional log, tasks and cache are as they were when it arrived.
C19_InvalidPromptRejected ==
  (/\ InFlight
   /\ request.reached
   /\ (request.prompt.t # "string" \/ request.prompt.v = << >>))
    => /\ request.pc = "answered"
       /\ request.status = 400
       /\ request.reads = 0
       /\ request.calls = 0
       /\ ~request.headers
       /\ request.commits = 0
       /\ << memory, emotionalLog, tasks, cacheValid >> = request.before

\* a request with a prompt that is a number was answered 400 after an earlier request
\* had committed a memory pair
C19_Witness ==
  /\ InFlight
  /\ request.status = 400
  /\ request.prompt = Num(5)
  /\ memory # << >>

\* C20: a streaming request whose request to the upstream was rejected is answered with
\* HTTP 502 and a JSON body, with no SSE frame and no commit.
C20_UpstreamFailureIs502 ==
  (InFlight /\ request.stream /\ request.upstream = "rejected")
    => /\ request.status = 502
       /\ request.body = "json"
       /\ request.frames = 0
       /\ request.commits = 0

-----------------------------------------------------------------------------
(* Further claims about the optimized streaming route *)

\* C21: when the upstream fails while the stream is being relayed, the last two frames
\* the client receives are the error frame {error: true, message} and data: [DONE], and
\* the response keeps the status it was opened with.
C21_ErrorFrameThenDone ==
  (upstream = "errored" /\ leftBy = "error") =>
    /\ Len(wire) >= 2
    /\ wire[Len(wire) - 1] = ErrorFrame
    /\ wire[Len(wire)] = DoneFrame
    /\ httpStatus \in { 0, 200 }

-----------------------------------------------------------------------------
(* The intelligence compressor: services/intelligenceCompressorV2.js *)

\* o?.k
Entry(o, k) ==
  IF o.t = "entries" /\ \E i \in 1..Len(o.e) : o.e[i][1] = k
    THEN o.e[Least({ i \in 1..Len(o.e) : o.e[i][1] = k })][2]
    ELSE Undefined

\* String(n) of a natural number
RECURSIVE Digits(_)
Digits(n) ==
  LET digit == << "0", "1", "2", "3", "4", "5", "6", "7", "8", "9" >>
  IN IF n < 10 THEN << digit[n + 1] >> ELSE Digits(n \div 10) \o << digit[(n % 10) + 1] >>

\* a value inside a template literal
Template(x) ==
  CASE x.t = "string" -> x.v
    [] x.t = "number" -> Digits(x.n)
    [] x.t = "null" -> <<"n","u","l","l">>
    [] OTHER -> <<"u","n","d","e","f","i","n","e","d">>

\* text.split(c)
RECURSIVE Split(_, _)
Split(text, c) ==
  LET i == IndexFrom(text, << c >>, 1)
  IN IF i = 0 THEN << text >>
              ELSE << SubSeq(text, 1, i - 1) >> \o Split(From(text, i + 1), c)

\* parts.join(sep)
RECURSIVE Join(_, _)
Join(parts, sep) ==
  IF parts = << >> THEN << >>
  ELSE IF Len(parts) = 1 THEN parts[1]
  ELSE parts[1] \o sep \o Join(Tail(parts), sep)

\* Object.entries(data): of an object its entries, of a string its characters under
\* their indices
ObjectEntries(data) ==
  CASE data.t = "entries" -> data.e
    [] data.t = "string" -> [ i \in 1..Len(data.v) |-> << Digits(i - 1), Str(<< data.v[i] >>) >> ]
    [] OTHER -> << >>

semanticAbbreviations ==
  {
     << <<"m","e","s","s","a","g","e","C","o","m","p","l","e","x","i","t","y">>, <<"m","c">> >>,
     << <<"c","u","r","r","e","n","t","S","t","a","t","e">>, <<"c","s">> >>,
     << <<"p","r","i","m","a","r","y","E","m","o","t","i","o","n">>, <<"e">> >>,
     << <<"e","m","o","t","i","o","n","a","l","I","n","t","e","n","s","i","t","y">>, <<"e","i">> >>,
     << <<"c","o","n","f","i","d","e","n","c","e">>, <<"c","o","n","f">> >>,
     << <<"e","n","g","a","g","e","m","e","n","t","L","e","v","e","l">>, <<"e","n","g">> >>,
     << <<"e","m","o","t","i","o","n","a","l","S","h","i","f","t","s">>, <<"e","s","h">> >>,
     << <<"c","o","m","m","u","n","i","c","a","t","i","o","n","S","t","y","l","e">>, <<"c","o","m","m">> >>,
     << <<"t","o","p","i","c","E","v","o","l","u","t","i","o","n">>, <<"t","o","p","i","c">> >>,
     << <<"d","o","m","i","n","a","n","t","T","o","p","i","c">>, <<"d","o","m">> >>,
     << <<"t","o","p","i","c","F","l","o","w">>, <<"f","l","o","w">> >>,
     << <<"t","r","a","n","s","i","t","i","o","n","s">>, <<"t","r","a","n","s">> >>,
     << <<"e","n","g","a","g","e","m","e","n","t","T","r","e","n","d","s">>, <<"e","t","r","e","n","d">> >>,
     << <<"i","n","t","e","r","a","c","t","i","o","n","P","a","t","t","e","r","n","s">>, <<"i","p","a","t">> >>,
     << <<"e","m","o","t","i","o","n","a","l","T","r","e","n","d","s">>, <<"e","t","r","e","n","d">> >>,
     << <<"p","r","o","b","l","e","m","S","o","l","v","i","n","g","A","p","p","r","o","a","c","h">>, <<"p","s","a">> >>,
     << <<"p","e","r","s","o","n","a","l","i","t","y","E","v","o","l","u","t","i","o","n">>, <<"p","e","r","s">> >>,
     << <<"d","o","m","i","n","a","n","t","T","r","a","i","t","s">>, <<"t","r","a","i","t","s">> >>,
     << <<"c","o","g","n","i","t","i","v","e","S","t","y","l","e">>, <<"c","o","g">> >>,
     << <<"d","e","c","i","s","i","o","n","P","a","t","t","e","r","n","s">>, <<"d","e","c">> >>,
     << <<"l","e","a","r","n","i","n","g","V","e","l","o","c","i","t","y">>, <<"l","v">> >>,
     << <<"e","m","o","t","i","o","n","a","l","P","r","o","f","i","l","e">>, <<"e","p","r","o","f">> >>,
     << <<"t","r","e","n","d">>, <<"t">> >>,
     << <<"c","u","r","r","e","n","t">>, <<"c">> >>,
     << <<"b","a","s","e","l","i","n","e">>, <<"b">> >>,
     << <<"i","n","c","r","e","a","s","i","n","g">>, <<"i","n","c">> >>,
     << <<"d","e","c","r","e","a","s","i","n","g">>, <<"d","e","c">> >>,
     << <<"s","t","a","b","l","e">>, <<"s","t","a","b">> >>,
     << <<"n","e","u","t","r","a","l">>, <<"n","e","u">> >>,
     << <<"p","o","s","i","t","i","v","e">>, <<"p","o","s">> >>,
     << <<"n","e","g","a","t","i","v","e">>, <<"n","e","g">> >>,
     << <<"a","n","a","l","y","t","i","c","a","l">>, <<"a","n","a">> >>,
     << <<"c","r","e","a","t","i","v","e">>, <<"c","r","e">> >>,
     << <<"p","r","a","c","t","i","c","a","l">>, <<"p","r","a","c">> >>,
     << <<"i","n","q","u","i","r","y">>, <<"i","n","q">> >>,
     << <<"p","e","r","s","o","n","a","l">>, <<"p","e","r","s">> >>,
     << <<"t","e","c","h","n","i","c","a","l">>, <<"t","e","c","h">> >>,
     << <<"s","h","a","r","i","n","g">>, <<"s","h","r">> >>,
     << <<"q","u","e","s","t","i","o","n","i","n","g">>, <<"q","u","e">> >>,
     << <<"e","x","p","l","a","i","n","i","n","g">>, <<"e","x","p">> >>
  }

\* the pairs of a table whose term is t
Found(table, t) == { p \in table : p[1] = t }

\* table[term] || table[term.toLowerCase()]
Abbreviated(table, term, lower) ==
  IF term = << >> THEN Null
  ELSE IF Found(table, term) # {} THEN Str((CHOOSE p \in Found(table, term) : TRUE)[2])
  ELSE IF Found(table, lower) # {} THEN Str((CHOOSE p \in Found(table, lower) : TRUE)[2])
  ELSE Undefined

getAbbreviation(term) == Abbreviated(semanticAbbreviations, term, ToLowerCase(term))

estimateTokenCount(text) == (Len(text) + 3) \div 4

\* the for loop of truncateToTokenLimit from part i on
RECURSIVE TruncateFrom(_, _, _, _, _)
TruncateFrom(parts, i, result, count, tokenLimit) ==
  IF i > Len(parts) THEN result
  ELSE LET partTokens == estimateTokenCount(parts[i] \o << "," >>)
       IN IF count + partTokens > tokenLimit THEN result
          ELSE TruncateFrom(parts, i + 1,
                            (IF result # << >> THEN result \o << "," >> ELSE << >>) \o parts[i],
                            count + partTokens, tokenLimit)

truncateToTokenLimit(text, tokenLimit) == TruncateFrom(Split(text, ","), 1, << >>, 0, tokenLimit)

\* items of an array as single letters
ArrayCodes(a) ==
  Flatten([ i \in 1..Len(a) |->
              Or(getAbbreviation(a[i]), Str(SubSeq(a[i], 1, Min(1, Len(a[i]))))).v ])

RECURSIVE compressValue(_)
compressValue(value) ==
  CASE value.t \in { "null", "undefined" } -> Null
    [] value.t = "string" ->
         Or(getAbbreviation(value.v), Str(SubSeq(value.v, 1, Min(8, Len(value.v)))))
    [] value.t = "number" -> value
    [] value.t = "array" -> Str(ArrayCodes(value.a))
    [] value.t = "entries" ->
         IF Truthy(Entry(value, <<"t","r","e","n","d">>)) /\ Truthy(Entry(value, <<"c","u","r","r","e","n","t">>))
           THEN Str(<<"t","-">> \o Template(getAbbreviation(Entry(value, <<"t","r","e","n","d">>).v))
                    \o <<",","c",":">> \o Template(Entry(value, <<"c","u","r","r","e","n","t">>)))
         ELSE IF Truthy(Entry(value, <<"e","m","o","t","i","o","n">>)) /\ Truthy(Entry(value, <<"i","n","t","e","n","s","i","t","y">>))
           THEN Str(Template(getAbbreviation(Entry(value, <<"e","m","o","t","i","o","n">>).v)) \o <<"(">>
                    \o Template(Entry(value, <<"i","n","t","e","n","s","i","t","y">>)) \o <<")">>)
         ELSE IF value.e # << >>
           THEN Str(Template(getAbbreviation(value.e[1][1])) \o <<":">>
                    \o Template(compressValue(value.e[1][2])))
         ELSE Str(<<"[","o","b","j","e","c">>)

\* the part key:value of an entry
Part(e) ==
  LET abbreviatedKey == Or(getAbbreviation(e[1]), Str(SubSeq(e[1], 1, Min(3, Len(e[1])))))
  IN abbreviatedKey.v \o <<":">> \o Template(compressValue(e[2]))

WithValue(e) == e[1] # <<"r","e","l","i","a","b","i","l","i","t","y">> /\ compressValue(e[2]) # Null

\* the parts of the entries kept, joined with commas
Parts(kept) == Join([ i \in 1..Len(kept) |-> Part(kept[i]) ], << "," >>)

\* the result, truncated when it is estimated above the limit
Limited(result, tokenLimit) ==
  IF estimateTokenCount(result) > tokenLimit
    THEN truncateToTokenLimit(result, tokenLimit)
    ELSE result

compressDataSemantically(data, tokenLimit) ==
  Limited(Parts(SelectSeq(ObjectEntries(data), WithValue)), tokenLimit)

formatSemanticCompressed(data, tokenLimit) ==
  IF ~Truthy(data) \/ ObjectEntries(data) = << >> THEN << >>
  ELSE compressDataSemantically(data, tokenLimit)

\* this.modelProfiles: optimalIntelligenceTokens and maxContextTokens * 0.1
modelProfiles(model) ==
  CASE model = "gpt-4o" -> [optimalIntelligenceTokens |-> 150, tenth |-> 12800]
    [] model = "claude-3" -> [optimalIntelligenceTokens |-> 200, tenth |-> 20000]
    [] model = "gpt-4" -> [optimalIntelligenceTokens |-> 100, tenth |-> 800]
    [] OTHER -> [optimalIntelligenceTokens |-> 150, tenth |-> 12800]

\* typeMultipliers[messageType] || 1.0, in tenths
typeMultipliers(messageType) ==
  CASE messageType = <<"g","r","e","e","t","i","n","g">> -> 3
    [] messageType = <<"s","t","a","n","d","a","r","d">> -> 10
    [] messageType = <<"q","u","e","s","t","i","o","n">> -> 12
    [] messageType = <<"t","e","c","h","n","i","c","a","l">> -> 15
    [] messageType = <<"a","n","a","l","y","s","i","s">> -> 18
    [] messageType = <<"e","m","o","t","i","o","n","a","l">> -> 13
    [] messageType = <<"c","r","e","a","t","i","v","e">> -> 14
    [] OTHER -> 10

\* Math.round(p / q) of naturals, q > 0
RoundDiv(p, q) == (2 * p + q) \div (2 * q)

\* the factors are tenths, so the product is baseBudget * 1000; the products and the
\* rounding are exact here
calculateOptimalTokenBudget(model, messageType, complexity, historyLength) ==
  LET modelProfile == modelProfiles(model)
      complexityMultiplier == Min(20, 5 + complexity)
      history == IF historyLength > 10 THEN 13 ELSE IF historyLength < 3 THEN 8 ELSE 10
      baseBudget == modelProfile.optimalIntelligenceTokens * complexityMultiplier
                      * typeMultipliers(messageType) * history
  IN RoundDiv(Min(baseBudget, modelProfile.tenth * 1000), 1000)

extractCurrentFocus(currentMoment) ==
  IF Includes(currentMoment, <<"t","e","c","h","n","i","c","a","l">>) THEN <<"t","e","c","h","n","i","c","a","l">>
  ELSE IF Includes(currentMoment, <<"p","e","r","s","o","n","a","l">>) THEN <<"p","e","r","s","o","n","a","l">>
  ELSE IF Includes(currentMoment, <<"c","r","e","a","t","i","v","e">>) THEN <<"c","r","e","a","t","i","v","e">>
  ELSE <<"g","e","n","e","r","a","l">>

predictUserNeeds(messageType) ==
  CASE messageType = <<"q","u","e","s","t","i","o","n">> -> << <<"d","e","t","a","i","l","e","d"," ","e","x","p","l","a","n","a","t","i","o","n">>, <<"e","x","a","m","p","l","e","s">> >>
    [] messageType = <<"t","e","c","h","n","i","c","a","l">> -> << <<"p","r","e","c","i","s","e"," ","i","n","f","o","r","m","a","t","i","o","n">>, <<"i","m","p","l","e","m","e","n","t","a","t","i","o","n"," ","d","e","t","a","i","l","s">> >>
    [] messageType = <<"e","m","o","t","i","o","n","a","l">> -> << <<"e","m","p","a","t","h","y">>, <<"s","u","p","p","o","r","t">>, <<"u","n","d","e","r","s","t","a","n","d","i","n","g">> >>
    [] OTHER -> << >>

\* the seven clusters; reliability is kept in hundredths
clusterIntelligenceData(ctx, messageType, complexity) ==
  LET micro == Entry(ctx, <<"m","i","c","r","o">>)
      medium == Entry(ctx, <<"m","e","d","i","u","m">>)
      macro == Entry(ctx, <<"m","a","c","r","o">>)
      currentState == Entry(micro, <<"c","u","r","r","e","n","t","S","t","a","t","e">>)
      currentMoment == Or(Entry(Entry(ctx, <<"s","y","n","t","h","e","s","i","s">>), <<"c","u","r","r","e","n","t","M","o","m","e","n","t">>), Str(<< >>))
      traits == Or(Entry(Entry(macro, <<"p","e","r","s","o","n","a","l","i","t","y","E","v","o","l","u","t","i","o","n">>), <<"d","o","m","i","n","a","n","t","T","r","a","i","t","s">>), Arr(<< >>))
      current == Or(Entry(Entry(micro, <<"m","e","s","s","a","g","e","C","o","m","p","l","e","x","i","t","y">>), <<"c","u","r","r","e","n","t">>), Num(5))
      none == Ordered(<< >>)
  IN IF ~Truthy(ctx)
       THEN [core |-> none, dynamic |-> none, contextual |-> none, predictive |-> none,
             behavioral |-> none, emotional |-> none, cognitive |-> none]
       ELSE
         [core |-> Ordered(<<
            << <<"p","r","i","m","a","r","y","P","e","r","s","o","n","a","l","i","t","y">>,
               Str(IF Len(traits.a) > 0 THEN traits.a[1] ELSE <<"a","n","a","l","y","t","i","c","a","l">>) >>,
            << <<"c","o","m","m","u","n","i","c","a","t","i","o","n","S","t","y","l","e">>,
               Or(Entry(Entry(micro, <<"c","o","m","m","u","n","i","c","a","t","i","o","n","S","t","y","l","e">>), <<"t","o","n","e">>), Str(<<"b","a","l","a","n","c","e","d">>)) >>,
            << <<"c","o","g","n","i","t","i","v","e","P","r","o","f","i","l","e">>,
               Str(IF current.n > 7 THEN <<"c","o","m","p","l","e","x">>
                   ELSE IF current.n > 4 THEN <<"m","o","d","e","r","a","t","e">> ELSE <<"s","i","m","p","l","e">>) >>,
            << <<"r","e","l","i","a","b","i","l","i","t","y">>, Num(90) >> >>),
          dynamic |-> Ordered(<<
            << <<"c","u","r","r","e","n","t","S","t","a","t","e">>, Or(currentState, none) >>,
            << <<"e","n","g","a","g","e","m","e","n","t","L","e","v","e","l">>,
               Or(Entry(Entry(medium, <<"e","n","g","a","g","e","m","e","n","t","T","r","e","n","d","s">>), <<"o","v","e","r","a","l","l">>), Str(<<"m","o","d","e","r","a","t","e">>)) >>,
            << <<"r","e","c","e","n","t","P","a","t","t","e","r","n">>, currentMoment >>,
            << <<"e","m","o","t","i","o","n","a","l","S","t","a","t","e">>, Or(Entry(micro, <<"e","m","o","t","i","o","n","a","l","S","h","i","f","t","s">>), Arr(<< >>)) >>,
            << <<"r","e","l","i","a","b","i","l","i","t","y">>, Num(70) >> >>),
          contextual |-> Ordered(<<
            << <<"m","e","s","s","a","g","e","T","y","p","e">>, Str(messageType) >>,
            << <<"c","o","m","p","l","e","x","i","t","y">>, Num(complexity) >>,
            << <<"f","o","c","u","s">>, Str(extractCurrentFocus(currentMoment.v)) >>,
            << <<"u","r","g","e","n","c","y">>, Str(IF complexity > 8 THEN <<"h","i","g","h">> ELSE <<"n","o","r","m","a","l">>) >>,
            << <<"r","e","l","i","a","b","i","l","i","t","y">>, Num(80) >> >>),
          predictive |-> Ordered(<<
            << <<"l","i","k","e","l","y","N","e","e","d","s">>, Arr(predictUserNeeds(messageType)) >>,
            << <<"o","p","t","i","m","a","l","R","e","s","p","o","n","s","e">>,
               Str(IF complexity > 7 THEN <<"c","o","m","p","r","e","h","e","n","s","i","v","e","-","a","n","a","l","y","t","i","c","a","l">>
                   ELSE IF complexity < 4 THEN <<"s","i","m","p","l","e","-","d","i","r","e","c","t">>
                   ELSE <<"b","a","l","a","n","c","e","d","-","i","n","f","o","r","m","a","t","i","v","e">>) >>,
            << <<"n","e","x","t","I","n","t","e","r","a","c","t","i","o","n">>,
               Or(Entry(Or(Entry(medium, <<"i","n","t","e","r","a","c","t","i","o","n","P","a","t","t","e","r","n","s">>), none), <<"l","i","k","e","l","y","N","e","x","t">>),
                  Str(<<"f","o","l","l","o","w","-","u","p","-","q","u","e","s","t","i","o","n">>)) >>,
            << <<"r","e","l","i","a","b","i","l","i","t","y">>, Num(60) >> >>),
          behavioral |-> Ordered(<<
            << <<"d","e","c","i","s","i","o","n","M","a","k","i","n","g">>, Or(Entry(macro, <<"d","e","c","i","s","i","o","n","P","a","t","t","e","r","n","s">>), none) >>,
            << <<"i","n","t","e","r","a","c","t","i","o","n","S","t","y","l","e">>, Or(Entry(medium, <<"i","n","t","e","r","a","c","t","i","o","n","P","a","t","t","e","r","n","s">>), none) >>,
            << <<"l","e","a","r","n","i","n","g","S","t","y","l","e">>, Or(Entry(macro, <<"l","e","a","r","n","i","n","g","V","e","l","o","c","i","t","y">>), none) >>,
            << <<"r","e","l","i","a","b","i","l","i","t","y">>, Num(80) >> >>),
          emotional |-> Ordered(<<
            << <<"c","u","r","r","e","n","t">>, Or(Entry(currentState, <<"p","r","i","m","a","r","y","E","m","o","t","i","o","n">>), Str(<<"n","e","u","t","r","a","l">>)) >>,
            << <<"i","n","t","e","n","s","i","t","y">>, Or(Entry(currentState, <<"e","m","o","t","i","o","n","a","l","I","n","t","e","n","s","i","t","y">>), Num(5)) >>,
            << <<"c","o","n","f","i","d","e","n","c","e">>,
               Or(Entry(currentState, <<"c","o","n","f","i","d","e","n","c","e">>), Str(<<"b","a","s","e","l","i","n","e","_","e","s","t","a","b","l","i","s","h","e","d">>)) >>,
            << <<"r","e","c","e","n","t","S","h","i","f","t","s">>, Or(Entry(micro, <<"e","m","o","t","i","o","n","a","l","S","h","i","f","t","s">>), Arr(<< >>)) >>,
            << <<"b","a","s","e","l","i","n","e">>, Or(Entry(macro, <<"e","m","o","t","i","o","n","a","l","P","r","o","f","i","l","e">>), none) >>,
            << <<"p","a","t","t","e","r","n","s">>, Or(Entry(medium, <<"e","m","o","t","i","o","n","a","l","T","r","e","n","d","s">>), none) >>,
            << <<"r","e","l","i","a","b","i","l","i","t","y">>, Num(85) >> >>),
          cognitive |-> Ordered(<<
            << <<"c","o","m","p","l","e","x","i","t","y">>, Or(Entry(micro, <<"m","e","s","s","a","g","e","C","o","m","p","l","e","x","i","t","y">>), none) >>,
            << <<"p","r","o","c","e","s","s","i","n","g">>, Or(Entry(macro, <<"c","o","g","n","i","t","i","v","e","S","t","y","l","e">>), none) >>,
            << <<"p","r","o","b","l","e","m","S","o","l","v","i","n","g">>, Or(Entry(medium, <<"p","r","o","b","l","e","m","S","o","l","v","i","n","g","A","p","p","r","o","a","c","h">>), none) >>,
            << <<"r","e","l","i","a","b","i","l","i","t","y">>, Num(85) >> >>)]

selectOptimalStrategy(tokenBudget) ==
  IF tokenBudget < 50 THEN "minimal"
  ELSE IF tokenBudget > 150 THEN "comprehensive"
  ELSE "balanced"

\* strategyPriorities[strategy], in hundredths
strategyPriorities(strategy) ==
  CASE strategy = "minimal" ->
         [emotional |-> 100, dynamic |-> 90, core |-> 80, contextual |-> 60,
          predictive |-> 20, behavioral |-> 30, cognitive |-> 30]
    [] strategy = "comprehensive" ->
         [emotional |-> 100, dynamic |-> 100, core |-> 95, contextual |-> 90,
          behavioral |-> 80, cognitive |-> 75, predictive |-> 80]
    [] OTHER ->
         [emotional |-> 100, dynamic |-> 95, core |-> 90, contextual |-> 80,
          behavioral |-> 70, cognitive |-> 60, predictive |-> 60]

\* Math.min(1.0, keys.length / 10), in tenths
calculateDataRichness(cluster) == Min(10, Len(cluster.e))

\* priority of each cluster, in units of 10^-5
calculateClusterPriorities(clusteredIntelligence, strategy) ==
  [ clusterName \in DOMAIN strategyPriorities(strategy) |->
      LET cluster == clusteredIntelligence[clusterName]
          reliability == Or(Entry(cluster, <<"r","e","l","i","a","b","i","l","i","t","y">>), Num(50))
      IN strategyPriorities(strategy)[clusterName] * reliability.n
           * calculateDataRichness(cluster) ]

RECURSIVE Sum(_, _)
Sum(f, S) == IF S = {} THEN 0 ELSE LET x == CHOOSE x \in S : TRUE IN f[x] + Sum(f, S \ { x })

\* tokens of each cluster; a total priority of zero makes every proportion NaN, and
\* NaN > 0 is false, which is what zero tokens stands for
allocateTokensByPriority(clusterPriorities, totalTokenBudget) ==
  LET totalWeightedPriority == Sum(clusterPriorities, DOMAIN clusterPriorities)
  IN [ clusterName \in DOMAIN clusterPriorities |->
         IF totalWeightedPriority = 0 THEN 0
         ELSE RoundDiv(totalTokenBudget * clusterPriorities[clusterName],
                       totalWeightedPriority) ]

\* the first two entries
extractEssentialData(clusterData) ==
  Ordered(SubSeq(clusterData.e, 1, Min(2, Len(clusterData.e))))

\* the first half of the entries
extractImportantData(clusterData) ==
  Ordered(SubSeq(clusterData.e, 1, (Len(clusterData.e) + 1) \div 2))

extractDetailedData(clusterData) ==
  Ordered(SelectSeq(clusterData.e, LAMBDA e : e[1] # <<"r","e","l","i","a","b","i","l","i","t","y">>))

\* which of ultraCompressCluster, standardCompressCluster and detailedCompressCluster
\* compressCluster calls
Technique(tokenLimit) ==
  IF tokenLimit < 20 THEN "ultra"
  ELSE IF tokenLimit < 50 THEN "standard"
  ELSE "detailed"

\* the data the technique compresses
Extracted(technique, clusterData) ==
  CASE technique = "ultra" -> extractEssentialData(clusterData)
    [] technique = "standard" -> extractImportantData(clusterData)
    [] OTHER -> extractDetailedData(clusterData)

compressCluster(clusterData, tokenLimit) ==
  IF tokenLimit <= 0 THEN Null
  ELSE Str(formatSemanticCompressed(Extracted(Technique(tokenLimit), clusterData), tokenLimit))

\* compressedClusters: a cluster without tokens has no key
performPredictiveCompression(clusteredIntelligence, strategy, tokenBudget) ==
  LET tokenAllocation ==
        allocateTokensByPriority(calculateClusterPriorities(clusteredIntelligence, strategy),
                                 tokenBudget)
  IN [ clusterName \in DOMAIN tokenAllocation |->
         IF tokenAllocation[clusterName] > 0
           THEN compressCluster(clusteredIntelligence[clusterName], tokenAllocation[clusterName])
           ELSE Undefined ]

\* { ...emotional, ...dynamic } of two strings (or undefined): the characters under
\* their indices, those of dynamic over those of emotional
Spread(emotional, dynamic) ==
  LET a == IF emotional.t = "string" THEN emotional.v ELSE << >>
      b == IF dynamic.t = "string" THEN dynamic.v ELSE << >>
  IN Ordered([ i \in 1..Max(Len(a), Len(b)) |->
                 << Digits(i - 1), Str(<< IF i <= Len(b) THEN b[i] ELSE a[i] >>) >> ])

\* one section of the prompt, or nothing
Named(name, present, compressed) ==
  IF present /\ compressed # << >>
    THEN << name \o <<"{">> \o compressed \o <<"}">> >>
    ELSE << >>

Section(name, present, data, tokenLimit) ==
  Named(name, present, formatSemanticCompressed(data, tokenLimit))

generateOptimizedPrompt(compressedContext, strategy) ==
  LET cc == compressedContext
      sections ==
        Section(<<"M","I","C","R","O">>, Truthy(cc.emotional) \/ Truthy(cc.dynamic),
                Spread(cc.emotional, cc.dynamic), 30)
        \o Section(<<"T","O","P","I","C">>, Truthy(cc.contextual), cc.contextual, 25)
        \o Section(<<"C","O","R","E">>, Truthy(cc.core), cc.core, 25)
        \o Section(<<"B","E","H","A","V">>, Truthy(cc.behavioral) /\ strategy # "minimal", cc.behavioral, 20)
        \o Section(<<"C","O","G">>, Truthy(cc.cognitive) /\ strategy # "minimal", cc.cognitive, 20)
        \o Section(<<"P","R","E","D">>, Truthy(cc.predictive) /\ strategy = "comprehensive",
                   cc.predictive, 15)
  IN Join(sections, << " " >>)

getFallbackCompression(messageType) ==
  [compressedPrompt |-> <<"U","s","e","r"," ","s","h","o","w","s"," ">> \o messageType \o <<" ","c","o","m","m","u","n","i","c","a","t","i","o","n"," ","p","a","t","t","e","r","n",".">>,
   strategy |-> "fallback", tokenBudget |-> Undefined]

\* compressForLLM up to the choice of the strategy: tokenBudget_calc,
\* clusteredIntelligence and strategy
Clustered(ctx, messageType, complexity, model, historyLength) ==
  [tokenBudget |-> calculateOptimalTokenBudget(model, messageType, complexity, historyLength),
   clusteredIntelligence |-> clusterIntelligenceData(ctx, messageType, complexity),
   strategy |-> selectOptimalStrategy(
                  calculateOptimalTokenBudget(model, messageType, complexity, historyLength))]

\* const compressedContext
Compressed(k) ==
  performPredictiveCompression(k.clusteredIntelligence, k.strategy, k.tokenBudget)

\* what compressForLLM returns; JSON.stringify(undefined).length in
\* calculateCompressionMetrics throws
Returned(ctx, messageType, k, compressedContext) ==
  IF ctx = Undefined THEN getFallbackCompression(messageType)
  ELSE [compressedPrompt |-> generateOptimizedPrompt(compressedContext, k.strategy),
        strategy |-> k.strategy, tokenBudget |-> Num(k.tokenBudget)]

\* compressForLLM with the default options but model and conversationHistory
compressForLLM(ctx, messageType, complexity, model, historyLength) ==
  Returned(ctx, messageType,
           Clustered(ctx, messageType, complexity, model, historyLength),
           Compressed(Clustered(ctx, messageType, complexity, model, historyLength)))

\* The intelligence contexts a call is made with: undefined, null, an object without
\* any of the keys read, and one with them
PlainContext == Ordered(<< >>)
RichContext ==
  Ordered(<<
    << <<"m","i","c","r","o">>, Ordered(<<
         << <<"c","u","r","r","e","n","t","S","t","a","t","e">>, Ordered(<< << <<"p","r","i","m","a","r","y","E","m","o","t","i","o","n">>, Str(<<"p","o","s","i","t","i","v","e">>) >>,
                                         << <<"e","m","o","t","i","o","n","a","l","I","n","t","e","n","s","i","t","y">>, Num(8) >>,
                                         << <<"c","o","n","f","i","d","e","n","c","e">>, Str(<<"h","i","g","h">>) >> >>) >>,
         << <<"e","m","o","t","i","o","n","a","l","S","h","i","f","t","s">>, Arr(<< <<"p","o","s","i","t","i","v","e">>, <<"n","e","g","a","t","i","v","e">> >>) >>,
         << <<"c","o","m","m","u","n","i","c","a","t","i","o","n","S","t","y","l","e">>, Ordered(<< << <<"t","o","n","e">>, Str(<<"a","n","a","l","y","t","i","c","a","l">>) >> >>) >>,
         << <<"m","e","s","s","a","g","e","C","o","m","p","l","e","x","i","t","y">>, Ordered(<< << <<"c","u","r","r","e","n","t">>, Num(8) >>,
                                              << <<"t","r","e","n","d">>, Str(<<"i","n","c","r","e","a","s","i","n","g">>) >> >>) >> >>) >>,
    << <<"m","e","d","i","u","m">>, Ordered(<<
         << <<"e","n","g","a","g","e","m","e","n","t","T","r","e","n","d","s">>, Ordered(<< << <<"o","v","e","r","a","l","l">>, Str(<<"i","n","c","r","e","a","s","i","n","g">>) >> >>) >>,
         << <<"i","n","t","e","r","a","c","t","i","o","n","P","a","t","t","e","r","n","s">>, Ordered(<< << <<"l","i","k","e","l","y","N","e","x","t">>, Str(<<"s","h","a","r","i","n","g">>) >> >>) >>,
         << <<"e","m","o","t","i","o","n","a","l","T","r","e","n","d","s">>, Ordered(<< << <<"e","m","o","t","i","o","n">>, Str(<<"p","o","s","i","t","i","v","e">>) >>,
                                            << <<"i","n","t","e","n","s","i","t","y">>, Num(7) >> >>) >> >>) >>,
    << <<"m","a","c","r","o">>, Ordered(<<
         << <<"p","e","r","s","o","n","a","l","i","t","y","E","v","o","l","u","t","i","o","n">>,
            Ordered(<< << <<"d","o","m","i","n","a","n","t","T","r","a","i","t","s">>, Arr(<< <<"c","r","e","a","t","i","v","e">> >>) >> >>) >>,
         << <<"c","o","g","n","i","t","i","v","e","S","t","y","l","e">>, Ordered(<< << <<"s","t","y","l","e">>, Str(<<"p","r","a","c","t","i","c","a","l">>) >> >>) >> >>) >>,
    << <<"s","y","n","t","h","e","s","i","s">>, Ordered(<< << <<"c","u","r","r","e","n","t","M","o","m","e","n","t">>, Str(<<"t","e","c","h","n","i","c","a","l"," ","d","e","e","p"," ","d","i","v","e">>) >> >>) >>
  >>)

Contexts == { Undefined, Null, PlainContext, RichContext }
MessageTypes == { <<"g","r","e","e","t","i","n","g">>, <<"s","t","a","n","d","a","r","d">>, <<"q","u","e","s","t","i","o","n">>, <<"t","e","c","h","n","i","c","a","l">>, <<"a","n","a","l","y","s","i","s">>,
                  <<"e","m","o","t","i","o","n","a","l">>, <<"c","r","e","a","t","i","v","e">>, <<"o","t","h","e","r">> }
Complexities == { 1, 5, 9 }
Models == { "gpt-4o", "claude-3", "gpt-4", "other" }
HistoryLengths == { 0, 5, 11 }

\* the arguments of a call
Arguments ==
  [ctx : Contexts, messageType : MessageTypes, complexity : Complexities, model : Models,
   historyLength : HistoryLengths]

\* compressForLLM is called
Call ==
  /\ compression.pc = "idle"
  /\ \E args \in Arguments : compression' = [pc |-> "called", args |-> args]
  /\ UNCHANGED << completion, cache, runner, entry, extraction, emotions, context, commit >>

\* the budget is calculated, the context clustered and the strategy chosen
Cluster ==
  /\ compression.pc = "called"
  /\ LET a == compression.args
     IN compression' =
          [pc |-> "clustered", args |-> a,
           k |-> Clustered(a.ctx, a.messageType, a.complexity, a.model, a.historyLength)]
  /\ UNCHANGED << completion, cache, runner, entry, extraction, emotions, context, commit >>

\* const tokenAllocation
Allocated(k) ==
  allocateTokensByPriority(calculateClusterPriorities(k.clusteredIntelligence, k.strategy),
                           k.tokenBudget)

\* history: the technique compressCluster used for each cluster that was given tokens
Techniques(tokenAllocation) ==
  [ clusterName \in DOMAIN tokenAllocation |->
      IF tokenAllocation[clusterName] > 0 THEN Technique(tokenAllocation[clusterName])
      ELSE "none" ]

\* the clusters are compressed; tokenAllocation and techniques are history
Compress ==
  /\ compression.pc = "clustered"
  /\ compression' =
       [pc |-> "compressed", args |-> compression.args, k |-> compression.k,
        compressedContext |-> Compressed(compression.k),
        tokenAllocation |-> Allocated(compression.k),
        techniques |-> Techniques(Allocated(compression.k))]
  /\ UNCHANGED << completion, cache, runner, entry, extraction, emotions, context, commit >>

\* compressForLLM returns; budget is history: the tokenBudget_calc of the call
Return ==
  /\ compression.pc = "compressed"
  /\ compression' =
       [pc |-> "returned", args |-> compression.args,
        result |-> Returned(compression.args.ctx, compression.args.messageType,
                            compression.k, compression.compressedContext),
        budget |-> compression.k.tokenBudget]
  /\ UNCHANGED << completion, cache, runner, entry, extraction, emotions, context, commit >>

InitCompress == NoCompletion(<< >>) /\ CacheIdle /\ RunnerIdle /\ EntryIdle /\ ExtrasIdle

NextCompress == Call \/ Cluster \/ Compress \/ Return

SpecCompress == InitCompress /\ [][NextCompress]_vars

\* C22: the token estimate of the prompt a call of compressForLLM returns is at most the
\* token budget computed for the call.
C22_PromptWithinBudget ==
  compression.pc = "returned" =>
    estimateTokenCount(compression.result.compressedPrompt) <= compression.budget

-----------------------------------------------------------------------------
(* The extractor and the sanitizers as functions of a buffer *)

\* pieces a buffer is made of at most
MaxPieces == 3

\* a marker whose braces hold no JSON
EmotionOops == EMOTION_LOG \o <<":"," ","{","o","o","p","s","}">>

\* The pieces of the buffers
Pieces ==
  { DeltaHi, << " " >>, << "\n" >>, DeltaEmoTail, DeltaEmoFull, EmotionOops, DeltaTask,
    ToLowerCase(EMOTION_LOG) }

\* fullContent grows by a piece
Accumulate ==
  /\ extraction.pc = "reading"
  /\ extraction.pieces < MaxPieces
  /\ \E piece \in Pieces :
       extraction' = [extraction EXCEPT !.buffer = @ \o piece, !.pieces = @ + 1]
  /\ UNCHANGED << completion, cache, runner, entry, compression, emotions, context, commit >>

\* the buffer is given to extractMetadata twice, what that returns as cleanContent is
\* given to it again, and the buffer is given to sanitizeResponse and to cleanResponse
Extract ==
  /\ extraction.pc = "reading"
  /\ LET first == extractMetadata(extraction.buffer)
     IN extraction' =
          [pc |-> "done", buffer |-> extraction.buffer, pieces |-> extraction.pieces,
           first |-> first,
           twice |-> extractMetadata(extraction.buffer),
           again |-> extractMetadata(first.cleanContent),
           sanitized |-> sanitizeResponse(extraction.buffer),
           cleaned |-> cleanResponse(extraction.buffer)]
  /\ UNCHANGED << completion, cache, runner, entry, compression, emotions, context, commit >>

InitExtract ==
  /\ NoCompletion(<< >>) /\ CacheIdle /\ RunnerIdle /\ EntryIdle
  /\ compression = [pc |-> "idle"]
  /\ emotions = [pc |-> "idle", found |-> TRUE, log |-> << >>]
  /\ ContextIdle /\ CommitIdle
  /\ extraction = [pc |-> "reading", buffer |-> << >>, pieces |-> 0]

NextExtract == Accumulate \/ Extract

SpecExtract == InitExtract /\ [][NextExtract]_vars

\* where the occurrences of a marker start whose braces hold JSON
WellFormed(content, marker) ==
  { i \in 1..Len(content) :
      LET m == MarkerJsonAt(content, marker, i)
      IN m.close # 0 /\ JSONParse(SubSeq(content, m.open, m.close)).ok }

\* what the first well-formed occurrence of a marker holds, Undefined when there is none
FirstWellFormed(content, marker) ==
  IF WellFormed(content, marker) = {} THEN Undefined
  ELSE LET m == MarkerJsonAt(content, marker, Least(WellFormed(content, marker)))
       IN JSONParse(SubSeq(content, m.open, m.close)).value

\* C23: the extractor returns as emotion and as task what the first well-formed
\* occurrence of the marker holds (nothing when there is none), and no occurrence of a
\* marker is left in the cleaned text.
C23_FirstWellFormedWins ==
  extraction.pc = "done" =>
    /\ extraction.first.inferredEmotion = FirstWellFormed(extraction.buffer, EMOTION_LOG)
    /\ extraction.first.inferredTask = FirstWellFormed(extraction.buffer, TASK_INFERENCE)
    /\ ~HasMarker(extraction.first.cleanContent)

C25_SanitizedCleanAndNonEmpty ==
  extraction.pc = "done" =>
    /\ ~NamesMarker(ToLowerCase(extraction.sanitized))
    /\ ~NamesMarker(ToLowerCase(extraction.cleaned))
    /\ Trim(extraction.sanitized) # << >>
    /\ Trim(extraction.cleaned) # << >>

-----------------------------------------------------------------------------
(* Further claims about the way of a request *)

\* C26: the request to the upstream carries an n_predict of at most 1000 and a temperature
\* of at most 0.85, whatever the body of the request holds.
C26_ParametersCapped ==
  (InFlight /\ request.calls > 0) =>
    /\ request.sent.n_predict.n <= 1000
    /\ request.sent.temperature.n <= 85

-----------------------------------------------------------------------------
(* The optimized streaming route close to the token cap *)

\* The state of the streaming branch after TokenCap - 1 deltas "Hi" have arrived, one per
\* chunk, and have been forwarded
InitCap ==
  /\ upstream = "open"
  /\ delivered = 0
  /\ fullContent = [ i \in 1..(2 * (TokenCap - 1)) |-> DeltaHi[((i - 1) % 2) + 1] ]
  /\ tokenCount = TokenCap - 1
  /\ streamEnded = FALSE
  /\ streamTimeout = "armed"
  /\ wire = [ i \in 1..(TokenCap - 1) |-> ContentFrame(DeltaHi) ]
  /\ resEnded = FALSE
  /\ lateWrites = 0
  /\ httpStatus = 0
  /\ immediate = FALSE
  /\ dbPending = {}
  /\ commitRuns = 0
  /\ memory = << >>
  /\ emotionalLog = << >>
  /\ tasks = << >>
  /\ cacheValid = FALSE
  /\ awaiting = FALSE
  /\ stream = TRUE
  /\ arrived = [ i \in 1..(TokenCap - 1) |-> DeltaHi ]
  /\ forwarded = 1..(TokenCap - 1)
  /\ leftBy = "none"
  /\ ignored = 0
  /\ wireAtCommit = << >>
  /\ CacheIdle
  /\ RunnerIdle
  /\ EntryIdle
  /\ ExtrasIdle

\* The upstream lines of the rest of the reply
CapLines == { ContentLine(DeltaHi), ContentLine(DeltaSpace), ContentLine(DeltaEmoFull), DoneLine }

CapChunks == UNION { [1..n -> CapLines] : n \in 1..MaxChunk }

DataCap == \E chunk \in CapChunks : OnData(chunk)

NextCap ==
  \/ DataCap
  \/ OnEnd
  \/ OnError
  \/ OnTimeout
  \/ OnClose
  \/ ProcessStreamResponse
  \/ Store

SpecCap == InitCap /\ [][NextCap]_vars

\* C27: the client is never sent more than TokenCap content frames, and once the token
\* counter exceeds TokenCap the completion has left Streaming and no step writes another
\* content frame.
C27_AtMostCapDeltas ==
  [][/\ Len(SelectSeq(wire', IsContentFrame)) <= TokenCap
     /\ tokenCount > TokenCap =>
          /\ streamEnded
          /\ SelectSeq(wire', IsContentFrame) = SelectSeq(wire, IsContentFrame)]_vars

\* C27 witness: the delta after the TokenCap-th has ended the stream, TokenCap deltas have
\* been forwarded, and a later data event has arrived
C27_Witness ==
  /\ tokenCount = TokenCap + 1
  /\ leftBy = "cap"
  /\ Len(SelectSeq(wire, IsContentFrame)) = TokenCap
  /\ ignored > 0

----------------------------------------------------------------------------
(* POST /emotions (src/src/routes/emotions.js) *)

\* how many entries the emotional log of the model holds at most
MaxEntries == 2

Happy == << "h", "a", "p", "p", "y" >>

UTC == << "U", "T", "C" >>

\* req.body of the requests: mood, intensity, notes and timeZone
Moods ==
  { Undefined, Num(5), Str(<< >>), Str(<< " ", " " >>), Str(Happy),
    Str(<< " " >> \o Happy \o << " " >>) }

Intensities == { Undefined, Str(<< "8" >>), Num(0), Num(1), Num(10), Num(11) }

Notes == { Undefined, Str(<< " ", "o", "k" >>) }

TimeZones == { Undefined, Str(UTC) }

Bodies == [mood : Moods, intensity : Intensities, notes : Notes, timeZone : TimeZones]

\* the test on mood that does not ask for what is left of it once trimmed
InvalidMoodUntrimmed(mood) == ~Truthy(mood) \/ typeof(mood) # "string"

\* !mood || typeof mood !== 'string' || mood.trim().length === 0
InvalidMood(mood) ==
  ~Truthy(mood) \/ typeof(mood) # "string" \/ Len(Trim(mood.v)) = 0

\* typeof intensity !== 'number' || intensity < 1 || intensity > 10
InvalidIntensity(intensity) ==
  typeof(intensity) # "number" \/ intensity.n < 1 \/ intensity.n > 10

\* const emotionalEntry
emotionalEntry(body) ==
  [emotion |-> Str(Trim(body.mood.v)),
   intensity |-> body.intensity,
   context |-> IF typeof(body.notes) = "undefined" THEN Undefined
               ELSE Or(Str(Trim(body.notes.v)), Undefined),
   timeZone |-> Or(body.timeZone, Undefined)]

\* the subdocument the schema of emotionalLog makes of a pushed entry: the paths of the
\* schema, the strings trimmed
Subdocument(e) ==
  [emotion |-> IF typeof(e.emotion) = "string" THEN Str(Trim(e.emotion.v)) ELSE e.emotion,
   intensity |-> e.intensity,
   context |-> IF typeof(e.context) = "string" THEN Str(Trim(e.context.v)) ELSE e.context]

\* the validators of the schema of emotionalLog: emotion required, intensity min 1, max 10
Validates(d) ==
  /\ typeof(d.emotion) = "string" /\ d.emotion.v # << >>
  /\ typeof(d.intensity) = "number" => (d.intensity.n >= 1 /\ d.intensity.n <= 10)

Responds(status, echoed) == [status |-> status, entry |-> echoed]

\* the handler up to await User.findById; before is history: the log as the request came
Post ==
  /\ emotions.pc \in { "idle", "answered" }
  /\ Len(emotions.log) < MaxEntries
  /\ \E body \in Bodies :
       emotions' =
         IF InvalidMood(body.mood) \/ InvalidIntensity(body.intensity)
         THEN [pc |-> "answered", found |-> emotions.found, log |-> emotions.log,
               body |-> body, before |-> emotions.log,
               response |-> Responds(400, Undefined)]
         ELSE [pc |-> "finding", found |-> emotions.found, log |-> emotions.log,
               body |-> body, before |-> emotions.log]
  /\ UNCHANGED << completion, cache, runner, entry, compression, extraction, context, commit >>

\* the handler from the user found or not to its answer
Save ==
  /\ emotions.pc = "finding"
  /\ LET e == emotionalEntry(emotions.body)
         d == Subdocument(e)
         Answered(log, response) ==
           [pc |-> "answered", found |-> emotions.found, log |-> log,
            body |-> emotions.body, before |-> emotions.before, response |-> response]
     IN emotions' =
          IF ~emotions.found
          THEN Answered(emotions.log, Responds(404, Undefined))
          ELSE IF ~Validates(d)
          THEN Answered(emotions.log, Responds(500, Undefined))
          ELSE Answered(Append(emotions.log, d),
                        Responds(201, [mood |-> e.emotion, intensity |-> e.intensity,
                                       notes |-> e.context, timeZone |-> e.timeZone]))
  /\ UNCHANGED << completion, cache, runner, entry, compression, extraction, context, commit >>

\* the user of the token is stored, or is not stored any more
InitEmotions ==
  /\ NoCompletion(<< >>) /\ CacheIdle /\ RunnerIdle /\ EntryIdle
  /\ compression = [pc |-> "idle"]
  /\ extraction = [pc |-> "idle"]
  /\ ContextIdle /\ CommitIdle
  /\ \E found \in BOOLEAN : emotions = [pc |-> "idle", found |-> found, log |-> << >>]

NextEmotions == Post \/ Save

SpecEmotions == InitEmotions /\ [][NextEmotions]_vars

\* a string that holds a character other than white space
NonBlank(x) == x.t = "string" /\ \E j \in 1..Len(x.v) : x.v[j] \notin WS

----------------------------------------------------------------------------
(* The optimized streaming route fed with deltas that carry a stop sequence or a marker
   after ordinary text *)

\* the delta "Answer. \nHuman:" and what precedes the stop sequence in it
DeltaAnswer == <<"A","n","s","w","e","r","."," ">>
DeltaAnswerStop == DeltaAnswer \o DeltaStop

\* the delta "Sure. TASK_INFERENCE: {...}" whose JSON has a nested parameters object
DeltaSure == <<"S","u","r","e",".">>
DeltaSureTask == DeltaSure \o << " " >> \o TASK_INFERENCE \o << ":", " " >> \o JsonPlan

\* The upstream lines of such replies
InsideLines ==
  { ContentLine(DeltaHi), ContentLine(DeltaAnswerStop), ContentLine(DeltaSureTask), DoneLine }

InsideChunks == UNION { [1..n -> InsideLines] : n \in 1..MaxChunk }

DataInside == \E chunk \in InsideChunks : OnData(chunk)

NextInside ==
  \/ DataInside
  \/ OnEnd
  \/ OnError
  \/ OnTimeout
  \/ OnClose
  \/ ProcessStreamResponse
  \/ Store

SpecInside == Init /\ [][NextInside]_vars

\* C29: when the delta "Answer. \nHuman:" has brought the first stop sequence into the
\* buffer, the client has received what the deltas held before the stop sequence, ending
\* with "Answer. ", and nothing of the stop sequence; the upstream is cancelled; and once
\* nothing more can happen the committer has run.
C29_StopInsideDelta ==
  (leftBy = "stop" /\ arrived[Len(arrived)] = DeltaAnswerStop) =>
    /\ ClientText = Flatten(SubSeq(arrived, 1, Len(arrived) - 1)) \o DeltaAnswer
    /\ upstream # "open"
    /\ Quiescent => commitRuns = 1

\* C30: when the reply was the one delta "Sure. TASK_INFERENCE: {...}" with a nested
\* parameters object and the stream has ended and been committed, the client has received
\* the text "Sure." and the one task created is queued with taskType plan_day and
\* parameters {priority: "focus"}.
C30_NestedTaskCreated ==
  (Quiescent /\ upstream = "ended" /\ arrived = << DeltaSureTask >>) =>
    /\ Trim(ClientText) = DeltaSure
    /\ tasks = << [taskType |-> Str(<<"p","l","a","n","_","d","a","y">>),
                   parameters |-> Obj([priority |-> Str(<<"f","o","c","u","s">>)]),
                   status |-> "queued"] >>

----------------------------------------------------------------------------
(* The committers fed with task markers whose parameters are not a mapping *)

DeltaTaskNull == TASK_INFERENCE \o << ":", " " >> \o JsonTaskNull
DeltaTaskList == TASK_INFERENCE \o << ":", " " >> \o JsonTaskList
DeltaTaskText == TASK_INFERENCE \o << ":", " " >> \o JsonTaskText
DeltaTaskNone == TASK_INFERENCE \o << ":", " " >> \o JsonTaskNone

\* The upstream lines of a reply that holds one of these markers
ParameterLines ==
  { ContentLine(DeltaHi), ContentLine(DeltaTask), ContentLine(DeltaTaskNull),
    ContentLine(DeltaTaskList), ContentLine(DeltaTaskText), ContentLine(DeltaTaskNone),
    DoneLine }

ParameterChunks == UNION { [1..n -> ParameterLines] : n \in 1..MaxChunk }

DataParameters == \E chunk \in ParameterChunks : OnData(chunk)

NextParameters ==
  \/ DataParameters
  \/ OnEnd
  \/ OnError
  \/ OnTimeout
  \/ OnClose
  \/ ProcessStreamResponse
  \/ Store

SpecParameters == Init /\ [][NextParameters]_vars

\* the JSON texts of the task markers of the model
TaskMarkers == { JsonTask, JsonPlan, JsonTaskNull, JsonTaskList, JsonTaskText, JsonTaskNone }

\* the task a marker asks for: its taskType, queued, with its parameters when they are a
\* mapping and with an empty mapping otherwise
Asked(marker) ==
  [taskType |-> Get(marker, "taskType"),
   parameters |-> IF Get(marker, "parameters").t = "object" THEN Get(marker, "parameters")
                  ELSE Obj(<< >>),
   status |-> "queued"]

\* C31: every task the committer has created has a taskType that is a non-empty string
\* and the status queued, and its parameters are the mapping of its marker, or an empty
\* mapping when the marker's parameters are absent, null, an array or a string.
C31_TaskParametersMapping ==
  \A i \in 1..Len(tasks) :
    /\ tasks[i].taskType.t = "string" /\ tasks[i].taskType.v # << >>
    /\ tasks[i].status = "queued"
    /\ \E text \in TaskMarkers : tasks[i] = Asked(JSONParse(text).value)

----------------------------------------------------------------------------
(* Further claims about the compressor *)

\* C32: a call that forces no strategy is given the strategy minimal when its budget is
\* at most 50, comprehensive when its budget is at least 150, and balanced for every
\* budget strictly between 50 and 150.
C32_StrategyByBudget ==
  compression.pc \in { "clustered", "compressed" } =>
    compression.k.strategy =
      (IF compression.k.tokenBudget <= 50 THEN "minimal"
       ELSE IF compression.k.tokenBudget >= 150 THEN "comprehensive"
       ELSE "balanced")

\* C33: a cluster allocated fewer than 20 tokens is compressed with ultra, one allocated
\* 20 to 50 tokens with standard, one allocated more than 50 tokens with detailed, and a
\* cluster whose allocation is not positive has no entry in the compressed context.
C33_TechniqueByAllocation ==
  compression.pc = "compressed" =>
    \A clusterName \in DOMAIN compression.tokenAllocation :
      IF compression.tokenAllocation[clusterName] <= 0
        THEN compression.compressedContext[clusterName] = Undefined
        ELSE /\ compression.compressedContext[clusterName] # Undefined
             /\ compression.techniques[clusterName] =
                  (IF compression.tokenAllocation[clusterName] < 20 THEN "ultra"
                   ELSE IF compression.tokenAllocation[clusterName] <= 50 THEN "standard"
                   ELSE "detailed")

-----------------------------------------------------------------------------
(* The context assembler: buildUserContext and buildMessages of routes/completion.js,
   read through the user cache *)

\* how many committed pairs the memory of the model holds at most
MaxPairs == 4

\* how many entries the stored emotional log of the model holds at most
MaxLogged == 4

\* .limit(6)
RecentLimit == 6

\* .slice(0, 3)
LogLimit == 3

\* array.reverse()
Reverse(a) == [ i \in 1..Len(a) |-> a[Len(a) + 1 - i] ]

\* the pairs the committers have stored, in the order of their timestamps
StoredPair(i) ==
  << [role |-> "user", content |-> << "q" >> \o Digits(i)],
     [role |-> "assistant", content |-> << "a" >> \o Digits(i)] >>
RECURSIVE StoredMemory(_)
StoredMemory(n) == IF n = 0 THEN << >> ELSE StoredMemory(n - 1) \o StoredPair(n)

\* the entries of user.emotionalLog, in the order they were pushed
LoggedEntry(i) ==
  [emotion |-> Str(IF i % 2 = 1 THEN <<"j","o","y">> ELSE <<"f","e","a","r">>),
   intensity |-> IF i % 2 = 1 THEN Num(i) ELSE Undefined,
   context |-> IF i = 2 THEN Undefined ELSE Str(<<"w","o","r","k">>),
   timestamp |-> i]
StoredLog(k) == [ i \in 1..k |-> LoggedEntry(i) ]

\* ShortTermMemory.find({ userId }).sort({ timestamp: -1 }).limit(6).lean()
FindRecent(store) == SubSeq(Reverse(store), 1, Min(RecentLimit, Len(store)))

\* array.sort((a, b) => new Date(b.timestamp) - new Date(a.timestamp)): stable, the
\* greatest timestamp first
RECURSIVE InsertByTimestamp(_, _)
InsertByTimestamp(sorted, e) ==
  IF sorted = << >> THEN << e >>
  ELSE IF Head(sorted).timestamp >= e.timestamp
    THEN << Head(sorted) >> \o InsertByTimestamp(Tail(sorted), e)
    ELSE << e >> \o sorted
RECURSIVE SortByTimestamp(_)
SortByTimestamp(a) ==
  IF a = << >> THEN << >>
  ELSE InsertByTimestamp(SortByTimestamp(SubSeq(a, 1, Len(a) - 1)), a[Len(a)])

\* new Date(entry.timestamp).toLocaleDateString("en-US", ...): the entries of the model
\* are of the days of one month
LocaleDate(timestamp) == <<"J","a","n"," ">> \o Digits(timestamp) \o <<","," ","2","0","2","5">>

\* the line of the formatted emotional log of one entry
FormatEntry(e) ==
  <<"O","n"," ">> \o LocaleDate(e.timestamp) \o <<","," ","y","o","u"," ","e","x","p","r","e","s","s","e","d"," ","f","e","e","l","i","n","g"," ">> \o Template(e.emotion)
    \o (IF Truthy(e.intensity) THEN <<" ","(","i","n","t","e","n","s","i","t","y"," ">> \o Template(e.intensity) \o <<")">> ELSE << >>)
    \o <<" ","b","e","c","a","u","s","e",":"," ">> \o Or(e.context, Str(<<"n","o"," ","s","p","e","c","i","f","i","c"," ","c","o","n","t","e","x","t"," ","p","r","o","v","i","d","e","d">>)).v \o <<".">>

\* const formattedEmotionalLog, of the sorted log
FormatLog(sorted) ==
  Join([ i \in 1..Min(LogLimit, Len(sorted)) |-> FormatEntry(sorted[i]) ], << "\n" >>)

\* mem.role === "user" ? "user" : "assistant"
RoleOf(mem) == IF mem.role = "user" THEN "user" ELSE "assistant"

\* const conversationHistory
conversationHistory(recentMemory) ==
  Join([ i \in 1..Len(recentMemory) |->
           (IF RoleOf(recentMemory[i]) = "user" THEN <<"u","s","e","r">> ELSE <<"a","s","s","i","s","t","a","n","t">>)
             \o << "\n" >> \o recentMemory[i].content ],
       << "\n" >>)

\* const systemMessage; of each of its fixed paragraphs the model keeps the heading
systemMessage(userProfile, history, formattedEmotionalLog) ==
  <<"Y","o","u"," ","a","r","e"," ","N","u","m","i","n","a",".","\n","\n","U","S","E","R"," ","C","O","N","T","E","X","T",":","\n">> \o userProfile \o <<"\n","\n">>
    \o (IF Len(history) > 0 THEN <<"*","*","R","e","c","e","n","t"," ","C","o","n","v","e","r","s","a","t","i","o","n",":","*","*","\n">> \o history ELSE << >>)
    \o <<"\n","\n">>
    \o (IF Len(formattedEmotionalLog) > 0
          THEN <<"*","*","E","m","o","t","i","o","n","a","l"," ","P","a","t","t","e","r","n","s"," ","(","R","e","c","e","n","t",")",":","*","*","\n">> \o formattedEmotionalLog ELSE << >>)
    \o <<"\n","\n","Y","O","U","R"," ","R","O","L","E","\n">>

\* buildMessages(userProfile, formattedEmotionalLog, recentMemory, userPrompt)
buildMessages(userProfile, formattedEmotionalLog, recentMemory, prompt) ==
  << [role |-> "system",
      content |-> systemMessage(userProfile, conversationHistory(recentMemory),
                                formattedEmotionalLog)] >>
    \o [ i \in 1..Len(recentMemory) |->
           [role |-> RoleOf(recentMemory[i]), content |-> recentMemory[i].content] ]
    \o << [role |-> "user", content |-> prompt] >>

\* user.profile ? JSON.stringify(user.profile) : "{}", of a user without a profile
userProfile == <<"{","}">>

\* the value the cache holds for the user: the user document and the recent memory
NoValue == [emotionalLog |-> << >>, recentMemory |-> << >>]

\* buildUserContext up to the two values of await Promise.all: a lookup within the TTL
\* returns what the entry holds, otherwise the loaders run, the cache keeps what they
\* found and returns it. What is returned is the array the cache holds, not a copy.
LookUp ==
  /\ context.pc \in { "idle", "built" }
  /\ LET loaded == [emotionalLog |-> context.log, recentMemory |-> FindRecent(context.memory)]
         value == IF context.valid THEN context.held ELSE loaded
     IN context' =
          IF ~context.found
          THEN [context EXCEPT !.pc = "failed"]
          ELSE [context EXCEPT !.pc = "read", !.hit = context.valid, !.valid = TRUE,
                               !.held = value, !.before = value,
                               !.stored = IF context.valid THEN @ ELSE
                                            [memory |-> context.memory, log |-> context.log]]
  /\ UNCHANGED << completion, cache, runner, entry, compression, extraction, emotions, commit >>

\* buildUserContext after the await, and buildMessages: the emotional log is sorted and
\* the recent memory reversed in place, so the arrays of the cache entry are the sorted
\* and the reversed ones
Assemble ==
  /\ context.pc = "read"
  /\ LET sorted == SortByTimestamp(context.held.emotionalLog)
         recentMemory == Reverse(context.held.recentMemory)
     IN context' =
          [context EXCEPT !.pc = "built",
                          !.held = [emotionalLog |-> sorted, recentMemory |-> recentMemory],
                          !.formattedEmotionalLog = FormatLog(sorted),
                          !.recentMemory = recentMemory,
                          !.messages = buildMessages(userProfile, FormatLog(sorted),
                                                     recentMemory, userPrompt)]
  /\ UNCHANGED << completion, cache, runner, entry, compression, extraction, emotions, commit >>

\* the entry reaches the age of the TTL
EntryExpires ==
  /\ context.valid
  /\ context' = [context EXCEPT !.valid = FALSE]
  /\ UNCHANGED << completion, cache, runner, entry, compression, extraction, emotions, commit >>

\* the committer of a completed request of the user: the pair and, when the reply
\* carried one, an emotion are stored, then userCache.invalidateUser(userId)
Committing(logged) ==
  /\ context.pc \in { "idle", "built" }
  /\ Len(context.memory) < 2 * MaxPairs
  /\ logged => Len(context.log) < MaxLogged
  /\ context' =
       [context EXCEPT !.memory = @ \o StoredPair(Len(@) \div 2 + 1),
                       !.log = IF logged THEN Append(@, LoggedEntry(Len(@) + 1)) ELSE @,
                       !.valid = FALSE]
  /\ UNCHANGED << completion, cache, runner, entry, compression, extraction, emotions, commit >>

InitContext ==
  /\ NoCompletion(<< >>) /\ CacheIdle /\ RunnerIdle /\ EntryIdle
  /\ compression = [pc |-> "idle"]
  /\ extraction = [pc |-> "idle"]
  /\ emotions = [pc |-> "idle", found |-> TRUE, log |-> << >>]
  /\ CommitIdle
  /\ \E n \in 0..(MaxPairs - 1), k \in 0..(MaxLogged - 1), found \in BOOLEAN :
       context = [pc |-> "idle", found |-> found, memory |-> StoredMemory(n),
                  log |-> StoredLog(k), valid |-> FALSE, held |-> NoValue,
                  before |-> NoValue, hit |-> FALSE,
                  stored |-> [memory |-> << >>, log |-> << >>],
                  formattedEmotionalLog |-> << >>, recentMemory |-> << >>,
                  messages |-> << >>]

Commits == \E logged \in BOOLEAN : Committing(logged)

NextContext == LookUp \/ Assemble \/ EntryExpires \/ Commits

SpecContext == InitContext /\ [][NextContext]_vars

\* the most recent stored entries, the oldest first
OldestFirst(store) == SubSeq(store, Max(1, Len(store) - RecentLimit + 1), Len(store))

\* C34: the message list is the system message, then the most recent stored memory
\* entries, each under its own role (user or assistant) and the oldest first, then the
\* current user turn.
C34_HistoryOldestFirst ==
  context.pc = "built" =>
    /\ Len(context.messages) = Len(OldestFirst(context.stored.memory)) + 2
    /\ context.messages[1].role = "system"
    /\ context.messages[Len(context.messages)] = [role |-> "user", content |-> userPrompt]
    /\ SubSeq(context.messages, 2, Len(context.messages) - 1) =
         OldestFirst(context.stored.memory)

\* C38: a request that hits the cache within the TTL, with no commit since the entry was
\* loaded, leaves the value of the entry as it was, and sees the recent memory the oldest
\* first and the emotional log of the store.
C38_BuildLeavesCacheValue ==
  (context.pc = "built" /\ context.hit) =>
    /\ context.held = context.before
    /\ context.recentMemory = OldestFirst(context.stored.memory)
    /\ context.formattedEmotionalLog = FormatLog(SortByTimestamp(context.stored.log))

-----------------------------------------------------------------------------
(* The committer of the optimized route when the store rejects an operation *)

\* the rejection of one operation that would abandon the operations still pending
DbRejectAll(o) ==
  /\ o \in dbPending
  /\ dbPending' = {}
  /\ commit' = [rejected |-> commit.rejected \cup {o}, thrown |-> TRUE]
  /\ UNCHANGED << upstream, delivered, fullContent, tokenCount, streamEnded, streamTimeout,
                  wire, resEnded, lateWrites, httpStatus, immediate, commitRuns, memory,
                  emotionalLog, tasks, cacheValid, awaiting, stream, wireAtCommit, arrived,
                  forwarded, leftBy, ignored, cache, runner, entry, compression, extraction,
                  emotions, context >>

\* the store rejects one issued operation: it takes no effect, await Promise.all(dbOperations)
\* throws into the catch of processStreamResponse, and the other operations, already
\* issued, stay with the store
DbReject(o) ==
  /\ o \in dbPending
  /\ dbPending' = dbPending \ {o}
  /\ commit' = [rejected |-> commit.rejected \cup {o}, thrown |-> TRUE]
  /\ UNCHANGED << upstream, delivered, fullContent, tokenCount, streamEnded, streamTimeout,
                  wire, resEnded, lateWrites, httpStatus, immediate, commitRuns, memory,
                  emotionalLog, tasks, cacheValid, awaiting, stream, wireAtCommit, arrived,
                  forwarded, leftBy, ignored, cache, runner, entry, compression, extraction,
                  emotions, context >>

Reject == \E o \in dbPending : DbReject(o)

\* the lines of the upstream: a reply, an emotion marker, a task marker and [DONE]
FailingLines ==
  { ContentLine(DeltaHi), ContentLine(DeltaEmoFull), ContentLine(DeltaTask), DoneLine }

FailingChunks == UNION { [1..n -> FailingLines] : n \in 1..MaxChunk }

DataFailing == \E chunk \in FailingChunks : OnData(chunk)

NextFailing ==
  \/ DataFailing
  \/ OnEnd
  \/ OnError
  \/ OnTimeout
  \/ OnClose
  \/ ProcessStreamResponse
  \/ Store
  \/ Reject

SpecFailing == Init /\ [][NextFailing]_vars

\* the operation has taken effect in the store
Applied(o) ==
  CASE o.op = "memory" ->
         \E i \in 1..(Len(memory) - 1) : SubSeq(memory, i, i + 1) = o.payload
    [] o.op = "emotion" -> \E i \in 1..Len(emotionalLog) : emotionalLog[i] = o.payload
    [] OTHER -> \E i \in 1..Len(tasks) : tasks[i] = o.payload

\* C35: once the committer has run up to its await, each of its operations (the memory
\* pair, the emotion, the task) is with the store, has taken effect or was rejected; an
\* operation that was not rejected itself is never lost through the rejection of another.
C35_OperationsIndependent ==
  (commitRuns > 0 /\ ~immediate) =>
    \A o \in StreamDbOperations(fullContent) :
      o \in dbPending \/ o \in commit.rejected \/ Applied(o)

\* the reply carried an emotion and a task, the emotion was rejected, and the memory pair
\* and the task are stored
C35_Witness ==
  /\ commitRuns > 0 /\ ~immediate /\ dbPending = {}
  /\ Cardinality(StreamDbOperations(fullContent)) = 3
  /\ \E o \in commit.rejected : o.op = "emotion"
  /\ Cardinality(commit.rejected) = 1
  /\ \A o \in StreamDbOperations(fullContent) \ commit.rejected : Applied(o)

-----------------------------------------------------------------------------
(* The task runner while the committers create tasks *)

\* Task.create({ userId, taskType, parameters, status: "queued" }) of a committer: the
\* task joins the collection with the defaults of the schema
Enqueue(taskType) ==
  /\ Len(taskStore) < MaxTasks
  /\ taskStore' = Append(taskStore, Task(userId, taskType, "queued", 0, 1))
  /\ owners' = Append(owners, {})
  /\ UNCHANGED << completion, cache, entry, extras, workers >>

Create == \E taskType \in { "summarize_expenses", "plan_day" } : Enqueue(taskType)

NextLifecycle ==
  \/ Start
  \/ Claim
  \/ Run
  \/ Finish
  \/ Create

\* two invocations of the same user run while the collection grows
InitLifecycle == InitRunner(Stores(MaxTasks - 1), StoredLogs, { "a", "b" })

SpecLifecycle == InitLifecycle /\ [][NextLifecycle]_vars

\* the steps of the status of a task
StatusSteps ==
  { << "queued", "processing" >>, << "processing", "completed" >>,
    << "processing", "failed" >> }

\* C36: the status of a task changes only along queued -> processing -> completed or
\* failed; a completed or failed task keeps its status and its result, is claimed by no
\* invocation again and is in the hands of none.
C36_StatusMovesForward ==
  [][\A id \in DOMAIN taskStore :
       /\ taskStore'[id].status # taskStore[id].status =>
            << taskStore[id].status, taskStore'[id].status >> \in StatusSteps
       /\ taskStore[id].status \in { "completed", "failed" } =>
            /\ taskStore'[id] = taskStore[id]
            /\ owners'[id] = owners[id]
            /\ \A n \in DOMAIN workers : ~Holds(n, id)']_vars

\* a task failed in one invocation; the other invocation, which had found it queued, has
\* passed it by and finished, and the task is still failed
C36_Witness ==
  \E id \in DOMAIN taskStore : \E n \in DOMAIN workers : \E o \in DOMAIN workers :
    /\ n # o
    /\ owners[id] = {n}
    /\ taskStore[id].status = "failed"
    /\ workers[n].pc = "done" /\ workers[o].pc = "done"
    /\ id \in workers[o].skipped
    /\ Len(taskStore) = MaxTasks

-----------------------------------------------------------------------------
(* The handlers of the optimized route against each other *)

\* the [DONE] frames and the error frames among the frames written
TerminalFrames(w) == { i \in 1..Len(w) : w[i] = DoneFrame \/ w[i] = ErrorFrame }

\* C37: whatever the order of data, end, error, timer and close events, at most one
\* [DONE] or error frame is written, nothing is written after the response was ended,
\* the response is ended only by the step that sets streamEnded, and once streamEnded
\* is set no step writes to the response or ends it.
C37_EndedAtMostOnce ==
  [][/\ Cardinality(TerminalFrames(wire')) <= 1
     /\ lateWrites' = 0
     /\ (resEnded' /\ ~resEnded) => (streamEnded' /\ ~streamEnded)
     /\ streamEnded => (wire' = wire /\ resEnded' = resEnded)]_vars

\* the timer has ended the response with its [DONE]; the upstream failed afterwards and
\* its handler wrote nothing
C37_Witness ==
  /\ leftBy = "timer"
  /\ upstream = "errored"
  /\ resEnded
  /\ wire # << >> /\ wire[Len(wire)] = DoneFrame
  /\ Cardinality(TerminalFrames(wire)) = 1
  /\ \E i \in 1..Len(wire) : IsContentFrame(wire[i])

-----------------------------------------------------------------------------
(* How often the committer runs for one request *)

\* C39: whatever events occur, the committer of a request is started at most once, and
\* the request stores at most one memory pair, one emotion entry and one task.
C39_CommitterRunsOnce ==
  /\ commitRuns <= 1
  /\ Len(memory) <= 2
  /\ Len(emotionalLog) <= 1
  /\ Len(tasks) <= 1

\* the [DONE] line of the upstream set streamEnded, the upstream ended afterwards, and
\* the one run of the committer has stored a pair, an emotion and a task
C39_Witness ==
  /\ leftBy = "done"
  /\ upstream = "ended"
  /\ commitRuns = 1 /\ ~immediate /\ dbPending = {}
  /\ Len(memory) = 2
  /\ Len(emotionalLog) = 1
  /\ Len(tasks) = 1

-----------------------------------------------------------------------------
(* The cache entry after a commit *)

\* C40: once a commit that stored the memory pair has ended, the user's cache entry
\* holds no recent memory from before the write: it is invalid, or it holds the memory
\* with the pair.
C40_NoStaleEntryAfterCommit ==
  (Committed /\ cacheValid) => cacheMemory = memory

====
